---- MODULE Spec2Model ----
(***************************************************************************)
(* Combat decision core of the capture agent: the useCombatSystem hook     *)
(* (danger-zone detector, target prioritizer, skill scheduler and the      *)
(* per-tick state machine processFrame).                                   *)
(*                                                                         *)
(* Numbers.  Coordinates, distances and times are the source's own units.  *)
(* Reals are kept exact:                                                   *)
(*   - a priority weight w is held as 100*w, a score term t as TermScale*t, *)
(*     so a priority p is held as 100*TermScale*p;                         *)
(*   - a zone centre (avgX, avgY) is held as the pair of sums (sumX, sumY) *)
(*     with mobCount, avgX = sumX / mobCount;                              *)
(*   - sqrt(a) <= b and sqrt(a) < b are decided on squares;                *)
(*   - an optional value (T | null, field?: T) is <<>> or <<v>>.           *)
(* Floating-point rounding is not modelled.                                *)
(***************************************************************************)
EXTENDS Integers, Sequences, FiniteSets, TLC

VARIABLES
  combatState,        \* useState<CombatState>
  currentTarget,      \* useState<PrioritizedTarget | null>
  nearbyTargets,      \* useState<PrioritizedTarget[]>
  dangerZones,        \* useState<zone[]>
  lastAction,         \* useState<CombatAction | null>
  skills,             \* useState<Skill[]>
  config,             \* useState<CombatConfig>
  playerPosition,     \* useState<PlayerPosition | null>
  screenCenter,       \* useState({x, y})
  combatStats,        \* useState({killCount, ...})
  lastPositionRef,    \* useRef<PlayerPosition | null>
  stuckTimerRef,      \* useRef<number>
  previousTargetsRef, \* useRef<Set<number>>
  clock,              \* Date.now() at the latest call
  lastFrame,          \* arguments of the latest processFrame call, and their count
  updates,            \* number of setter calls so far
  metricsRef,         \* useCoordinateMapping: useRef<VideoMetrics | null>
  visionState,        \* useVisionState: useState<VisionState>
  isCapturing,        \* DetectionPreview: useState(false)
  lastMapping,        \* arguments and results of the latest coordinate mapping
  lastRequest,        \* arguments and result of the latest getAvailableSkill call made alone
  lastClassified,     \* argument of the latest updateFromDetections call
  actionConfig,       \* useActionService: useState<ActionServiceConfig>
  sent,               \* payloads handed to fetch by sendAction, in order
  pending,            \* animation-frame callbacks requested and not yet run or cancelled
  inFlight,           \* passes of runLoop that await runInference
  approachSince       \* history: when the present stay in "approaching" began, or the
                      \* jump that interrupted it

vars == <<combatState, currentTarget, nearbyTargets, dangerZones, lastAction,
          skills, config, playerPosition, screenCenter, combatStats,
          lastPositionRef, stuckTimerRef, previousTargetsRef, clock, lastFrame,
          updates, metricsRef, visionState, isCapturing, lastMapping, lastRequest,
          lastClassified, actionConfig, sent, pending, inFlight, approachSince>>

(* the state outside the two hooks useCombatSystem and useCoordinateMapping *)
outside ==
  <<visionState, isCapturing, lastMapping, lastRequest, lastClassified,
    actionConfig, sent, pending, inFlight, approachSince>>

(* the action service and the inference loop of the preview *)
service == <<actionConfig, sent, pending, inFlight>>

history == <<approachSince>>

----------------------------------------------------------------------------
(* Bounds of the model *)

MaxDet == 3        \* detections in one frame
MaxTicks == 2      \* processFrame calls in one behaviour
MaxUpdates == 1    \* updateConfig / updateSkills / resetStats calls in one behaviour
MaxEnemies == 3    \* enemies handed to prioritizeTargets alone
StartTime == 100000

(* Scale of a score term: 1.0 is held as TermScale, the common denominator *)
(* of tenths, of an index over three preferred types and of a distance in  *)
(* tens over maxTargetDistance                                             *)
TermScale == 10 * 3 * 5

None == <<>>
Some(v) == <<v>>
Min(a, b) == IF a <= b THEN a ELSE b
Abs(a) == IF a < 0 THEN -a ELSE a

----------------------------------------------------------------------------
(* Strings: String.prototype.includes / toLowerCase on the type and name   *)
(* strings the model draws.                                                *)

TypeNames ==
  { "mob", "Elite_Mob", "loot", "player", "enemy_corpse", "our_hp", "Player_HP_Bar",
    "player_mana", "herb", "tree" }

ToLowerCase(s) ==
  CASE s = "Elite_Mob" -> "elite_mob"
    [] s = "Player_HP_Bar" -> "player_hp_bar"
    [] s = "Heal" -> "heal"
    [] s = "Hauptangriff" -> "hauptangriff"
    [] s = "Starker Angriff" -> "starker angriff"
    [] s = "AoE Skill" -> "aoe skill"
    [] s = "Buff" -> "buff"
    [] s = "Greater Healing" -> "greater healing"
    [] OTHER -> s

(* the substrings, among the keywords the code tests, of each string *)
Substrings(s) ==
  CASE s = "mob" -> {"mob"}
    [] s = "elite_mob" -> {"elite", "mob"}
    [] s = "Elite_Mob" -> {}
    [] s = "loot" -> {"loot"}
    [] s = "player" -> {"player"}
    [] s = "enemy_corpse" -> {"enemy", "corpse"}
    [] s = "heal" -> {"heal"}
    [] s = "greater healing" -> {"heal"}
    [] s = "our_hp" -> {"our_hp"}
    [] s = "player_hp_bar" -> {"player", "player_hp", "player_hp_bar"}
    [] s = "player_mana" -> {"player", "mana", "player_mana"}
    [] s = "herb" -> {"herb"}
    [] OTHER -> {}

Includes(s, kw) == kw \in Substrings(s)

----------------------------------------------------------------------------
(* Geometry *)

CenterX(d) == IF d.centerX # None THEN d.centerX[1] ELSE d.x + d.width \div 2
CenterY(d) == IF d.centerY # None THEN d.centerY[1] ELSE d.y + d.height \div 2

DistSq(x1, y1, x2, y2) == (x2 - x1) * (x2 - x1) + (y2 - y1) * (y2 - y1)

(* integer square root by bisection; exact on the perfect squares the     *)
(* drawn points produce                                                    *)
RECURSIVE Bisect(_, _, _)
Bisect(n, lo, hi) ==
  IF hi - lo <= 1 THEN lo
  ELSE LET mid == (lo + hi) \div 2 IN
    IF mid * mid <= n THEN Bisect(n, mid, hi) ELSE Bisect(n, lo, mid)

Sqrt(n) == Bisect(n, 0, n + 1)

calculateDistance(x1, y1, x2, y2) == Sqrt(DistSq(x1, y1, x2, y2))

(* calculateDistance(...) <= r *)
WithinDistance(x1, y1, x2, y2, r) == r >= 0 /\ DistSq(x1, y1, x2, y2) <= r * r

----------------------------------------------------------------------------
(* Defaults *)

DEFAULT_CONFIG ==
  [ priorityWeights |-> [distance |-> 20, hp |-> 20, type |-> 20,
                         threat |-> 15, isolation |-> 25],
    preferredTargetTypes |-> <<"enemy_nameplate", "mob", "enemy">>,
    maxTargetDistance |-> 500,
    mobDensityThreshold |-> 2,
    safetyDistance |-> 150,
    avoidDangerZones |-> TRUE,
    minAttackRange |-> 30,
    maxAttackRange |-> 100,
    aoeThreshold |-> 3,
    aoeRadius |-> 150,
    combatEnabled |-> FALSE,
    pullRange |-> 300,
    healThreshold |-> 30,
    kiteEnabled |-> TRUE,
    kiteDistance |-> 200,
    stuckTimeout |-> 2000,
    autoLoot |-> TRUE,
    lootDelay |-> 500 ]

Skill(id, name, cooldown, priority, isAoe, minTargets) ==
  [ id |-> id, name |-> name, keybind |-> id, cooldown |-> cooldown,
    lastUsed |-> 0, priority |-> priority, isAoe |-> isAoe,
    minTargets |-> minTargets ]

DEFAULT_SKILLS ==
  << Skill("1", "Hauptangriff", 0, 1, FALSE, None),
     Skill("2", "Starker Angriff", 5000, 2, FALSE, None),
     Skill("3", "AoE Skill", 10000, 3, TRUE, Some(3)),
     Skill("4", "Buff", 30000, 4, FALSE, None),
     Skill("5", "Heal", 15000, 10, FALSE, None) >>

----------------------------------------------------------------------------
(* Classification of detections by type keyword *)

EnemyKeywords == {"enemy_nameplate", "mob", "enemy", "hostile"}

IsEnemy(d) == \E kw \in EnemyKeywords : Includes(ToLowerCase(d.type), kw)

IsPlayer(d) ==
  Includes(ToLowerCase(d.type), "player") \/ Includes(ToLowerCase(d.type), "character")

IsLoot(d) ==
  Includes(ToLowerCase(d.type), "loot") \/ Includes(ToLowerCase(d.type), "corpse")

----------------------------------------------------------------------------
(* trackKills: ids of the previous call that are missing now *)

IdsOf(dets) == {dets[i].id : i \in 1..Len(dets)}

(* counts the ids that arrived instead of the ids that went missing *)
trackKillsArrivals(previousIds, currentDetections) ==
  Cardinality({id \in IdsOf(currentDetections) : id \notin previousIds})

trackKills(previousIds, currentDetections) ==
  Cardinality({id \in previousIds : id \notin IdsOf(currentDetections)})

----------------------------------------------------------------------------
(* countNeighbors *)

IsNeighborOrSelf(detection, other, safetyDistance) ==
  WithinDistance(CenterX(detection), CenterY(detection),
                 CenterX(other), CenterY(other), safetyDistance)

IsNeighbor(detection, other, safetyDistance) ==
  /\ other.id # detection.id
  /\ WithinDistance(CenterX(detection), CenterY(detection),
                    CenterX(other), CenterY(other), safetyDistance)

countNeighbors(detection, allDetections, safetyDistance) ==
  Len(SelectSeq(allDetections, LAMBDA other : IsNeighbor(detection, other, safetyDistance)))

----------------------------------------------------------------------------
(* detectDangerZones: one greedy pass in input order *)

RECURSIVE SumCenterX(_)
SumCenterX(seq) == IF seq = <<>> THEN 0 ELSE CenterX(Head(seq)) + SumCenterX(Tail(seq))

RECURSIVE SumCenterY(_)
SumCenterY(seq) == IF seq = <<>> THEN 0 ELSE CenterY(Head(seq)) + SumCenterY(Tail(seq))

ClusterOf(enemy, enemies, safetyDistance) ==
  SelectSeq(enemies, LAMBDA other :
    WithinDistance(CenterX(enemy), CenterY(enemy),
                   CenterX(other), CenterY(other), safetyDistance))

IsDenseAtLeast(cluster, densityThreshold) == Len(cluster) >= densityThreshold

IsDense(cluster, densityThreshold) == Len(cluster) > densityThreshold

ZoneOf(cluster, safetyDistance) ==
  [ sumX |-> SumCenterX(cluster),
    sumY |-> SumCenterY(cluster),
    radius |-> safetyDistance,
    mobCount |-> Len(cluster) ]

(* the pass without the bookkeeping of processed ids *)
RECURSIVE ZonePassUnmarked(_, _, _, _, _, _)
ZonePassUnmarked(enemies, i, processed, zones, safetyDistance, densityThreshold) ==
  IF i > Len(enemies) THEN zones
  ELSE LET cluster == ClusterOf(enemies[i], enemies, safetyDistance) IN
    ZonePassUnmarked(enemies, i + 1, processed,
                     IF IsDense(cluster, densityThreshold)
                       THEN Append(zones, ZoneOf(cluster, safetyDistance)) ELSE zones,
                     safetyDistance, densityThreshold)

RECURSIVE ZonePass(_, _, _, _, _, _)
ZonePass(enemies, i, processed, zones, safetyDistance, densityThreshold) ==
  IF i > Len(enemies) THEN zones
  ELSE IF enemies[i].id \in processed
    THEN ZonePass(enemies, i + 1, processed, zones, safetyDistance, densityThreshold)
    ELSE LET cluster == ClusterOf(enemies[i], enemies, safetyDistance) IN
      IF IsDense(cluster, densityThreshold)
        THEN ZonePass(enemies, i + 1, processed \cup IdsOf(cluster),
                      Append(zones, ZoneOf(cluster, safetyDistance)),
                      safetyDistance, densityThreshold)
        ELSE ZonePass(enemies, i + 1, processed, zones, safetyDistance, densityThreshold)

detectDangerZones(enemies, safetyDistance, densityThreshold) ==
  ZonePass(enemies, 1, {}, <<>>, safetyDistance, densityThreshold)

(* the same test with the border of the circle left out *)
InZoneStrict(x, y, zone) ==
  /\ zone.radius >= 0
  /\ DistSq(x * zone.mobCount, y * zone.mobCount, zone.sumX, zone.sumY)
       < zone.radius * zone.radius * zone.mobCount * zone.mobCount

(* calculateDistance(x, y, zone.x, zone.y) <= zone.radius, zone.x = sumX / mobCount *)
InZone(x, y, zone) ==
  /\ zone.radius >= 0
  /\ DistSq(x * zone.mobCount, y * zone.mobCount, zone.sumX, zone.sumY)
       <= zone.radius * zone.radius * zone.mobCount * zone.mobCount

(* calculateDistance(x, y, zone.x, zone.y) < zone.radius * 1.5 *)
NearZone(x, y, zone) ==
  /\ zone.radius > 0
  /\ 4 * DistSq(x * zone.mobCount, y * zone.mobCount, zone.sumX, zone.sumY)
       < 9 * zone.radius * zone.radius * zone.mobCount * zone.mobCount

----------------------------------------------------------------------------
(* calculatePriority, held as 100 * TermScale * score *)

RECURSIVE IndexFrom(_, _, _)
IndexFrom(seq, v, i) ==
  IF i > Len(seq) THEN -1 ELSE IF seq[i] = v THEN i - 1 ELSE IndexFrom(seq, v, i + 1)
IndexOf(seq, v) == IndexFrom(seq, v, 1)

distanceScore(distance, maxTargetDistance) ==
  TermScale - Min((distance * TermScale) \div maxTargetDistance, TermScale)

(* the type term growing with the index instead of falling *)
typeScoreRising(type, preferredTargetTypes) ==
  LET typeIndex == IndexOf(preferredTargetTypes, ToLowerCase(type)) IN
  IF typeIndex >= 0
    THEN TermScale + (typeIndex * TermScale) \div Len(preferredTargetTypes)
    ELSE TermScale \div 10

typeScore(type, preferredTargetTypes) ==
  LET typeIndex == IndexOf(preferredTargetTypes, ToLowerCase(type)) IN
  IF typeIndex >= 0
    THEN TermScale - (typeIndex * TermScale) \div Len(preferredTargetTypes)
    ELSE TermScale \div 10

hpScore == TermScale \div 2

threatScore(type) ==
  IF Includes(type, "elite") \/ Includes(type, "boss") THEN TermScale
  ELSE IF Includes(type, "add") \/ Includes(type, "minion") THEN (3 * TermScale) \div 10
  ELSE TermScale \div 2

isolationScore(neighborCount, mobDensityThreshold) ==
  IF neighborCount <= 1 THEN TermScale
  ELSE IF neighborCount <= mobDensityThreshold THEN TermScale \div 2
  ELSE TermScale \div 10

calculatePriority(detection, distance, neighborCount, cfg) ==
  LET w == cfg.priorityWeights IN
    distanceScore(distance, cfg.maxTargetDistance) * w.distance
  + hpScore * w.hp
  + typeScore(detection.type, cfg.preferredTargetTypes) * w.type
  + threatScore(detection.type) * w.threat
  + isolationScore(neighborCount, cfg.mobDensityThreshold) * w.isolation

----------------------------------------------------------------------------
(* prioritizeTargets *)

Enemies(detections) == SelectSeq(detections, IsEnemy)

ThreatLevel(detection, distance, cfg) ==
  IF Includes(detection.type, "elite") \/ Includes(detection.type, "boss") THEN "high"
  ELSE IF 10 * distance > cfg.maxTargetDistance * 7 THEN "low"
  ELSE "medium"

IsIsolated(neighborCount) == neighborCount <= 1

InSomeZone(detection, zones) ==
  \E k \in 1..Len(zones) : InZone(CenterX(detection), CenterY(detection), zones[k])

ToTarget(detection, enemies, zones, center, cfg) ==
  LET distance == calculateDistance(CenterX(detection), CenterY(detection),
                                    center.x, center.y)
      neighborCount == countNeighbors(detection, enemies, cfg.safetyDistance)
  IN [ detection |-> detection,
       priority |-> calculatePriority(detection, distance, neighborCount, cfg),
       distance |-> distance,
       threatLevel |-> ThreatLevel(detection, distance, cfg),
       neighborCount |-> neighborCount,
       isInDangerZone |-> InSomeZone(detection, zones),
       isIsolated |-> IsIsolated(neighborCount) ]

(* Array.prototype.sort((a, b) => b.priority - a.priority): stable, descending *)
RECURSIVE InsertByPriority(_, _)
InsertByPriority(sorted, t) ==
  IF sorted = <<>> THEN <<t>>
  ELSE IF Head(sorted).priority >= t.priority
    THEN <<Head(sorted)>> \o InsertByPriority(Tail(sorted), t)
    ELSE <<t>> \o sorted

RECURSIVE SortByPriority(_)
SortByPriority(seq) ==
  IF seq = <<>> THEN <<>>
  ELSE InsertByPriority(SortByPriority(SubSeq(seq, 1, Len(seq) - 1)), seq[Len(seq)])

InTargetRange(t, cfg) == t.distance <= cfg.maxTargetDistance

prioritizeTargets(detections, center, cfg) ==
  LET enemies == Enemies(detections)
      zones == detectDangerZones(enemies, cfg.safetyDistance, cfg.mobDensityThreshold)
      mapped == [i \in 1..Len(enemies) |-> ToTarget(enemies[i], enemies, zones, center, cfg)]
  IN [ zones |-> zones,
       targets |-> SortByPriority(SelectSeq(mapped, LAMBDA t : InTargetRange(t, cfg))) ]

----------------------------------------------------------------------------
(* getAvailableSkill *)

CooldownIgnored(skill, now) == now >= skill.lastUsed

CooldownElapsed(skill, now) == ~(now - skill.lastUsed < skill.cooldown)

HasMinTargets(skill) == skill.minTargets # None /\ skill.minTargets[1] # 0

IsEligibleAnyArea(skill, now, isAoeNeeded, nearbyCount) ==
  IF ~CooldownElapsed(skill, now) THEN FALSE
  ELSE IF isAoeNeeded /\ skill.isAoe
    THEN ~HasMinTargets(skill) \/ nearbyCount >= skill.minTargets[1]
  ELSE TRUE

IsEligible(skill, now, isAoeNeeded, nearbyCount) ==
  IF ~CooldownElapsed(skill, now) THEN FALSE
  ELSE IF isAoeNeeded /\ skill.isAoe
    THEN ~HasMinTargets(skill) \/ nearbyCount >= skill.minTargets[1]
  ELSE IF ~isAoeNeeded /\ skill.isAoe /\ HasMinTargets(skill) THEN FALSE
  ELSE TRUE

(* the eligible skill that sorts last *)
getAvailableSkillLast(roster, now, isAoeNeeded, nearbyCount) ==
  LET availableSkills ==
        SortByPriority(SelectSeq(roster, LAMBDA skill :
          IsEligible(skill, now, isAoeNeeded, nearbyCount)))
  IN IF availableSkills # <<>> THEN Some(availableSkills[Len(availableSkills)]) ELSE None

getAvailableSkill(roster, now, isAoeNeeded, nearbyCount) ==
  LET availableSkills ==
        SortByPriority(SelectSeq(roster, LAMBDA skill :
          IsEligible(skill, now, isAoeNeeded, nearbyCount)))
  IN IF availableSkills # <<>> THEN Some(availableSkills[1]) ELSE None

(* skills.find(s => s.name.toLowerCase().includes("heal") && now - s.lastUsed >= s.cooldown) *)
IsReadyHeal(skill, now) ==
  Includes(ToLowerCase(skill.name), "heal") /\ now - skill.lastUsed >= skill.cooldown

FindHealSkillByPriority(roster, now) ==
  LET found == SortByPriority(SelectSeq(roster, LAMBDA skill : IsReadyHeal(skill, now)))
  IN IF found # <<>> THEN Some(found[1]) ELSE None

FindHealSkill(roster, now) ==
  LET found == SelectSeq(roster, LAMBDA skill : IsReadyHeal(skill, now))
  IN IF found # <<>> THEN Some(found[1]) ELSE None

----------------------------------------------------------------------------
(* checkStuck: the verdict and the two refs after the call *)

StuckDistance == 5

checkStuck(currentPos, lastPos, stuckTimer, now, stuckTimeout) ==
  LET barelyMoved == IF lastPos # None
                 THEN DistSq(currentPos.x, currentPos.y, lastPos[1].x, lastPos[1].y)
                        < StuckDistance * StuckDistance
                 ELSE FALSE
      stored == Some([x |-> currentPos.x, y |-> currentPos.y, timestamp |-> now])
  IN IF lastPos # None /\ barelyMoved /\ now - stuckTimer > stuckTimeout
       THEN [isStuck |-> TRUE, lastPosition |-> lastPos, stuckTimer |-> stuckTimer]
     ELSE IF lastPos # None /\ barelyMoved
       THEN [isStuck |-> FALSE, lastPosition |-> stored, stuckTimer |-> stuckTimer]
     ELSE [isStuck |-> FALSE, lastPosition |-> stored, stuckTimer |-> now]

----------------------------------------------------------------------------
(* processFrame: the rules, in the order of the code *)

Action(type, skill, target, direction, reason) ==
  [ type |-> type, skill |-> skill, target |-> target,
    direction |-> direction, reason |-> reason ]

PlayerX(pos, center) == IF pos # None THEN pos[1].x ELSE center.x
PlayerY(pos, center) == IF pos # None THEN pos[1].y ELSE center.y

(* the safe targets without the filter *)
SafeTargetsUnfiltered(targets, cfg) == targets

SafeTargets(targets, cfg) ==
  IF cfg.avoidDangerZones
    THEN SelectSeq(targets, LAMBDA t : ~t.isInDangerZone)
    ELSE targets

PlayerNearDanger(zones, pos, center) ==
  \E k \in 1..Len(zones) : NearZone(PlayerX(pos, center), PlayerY(pos, center), zones[k])

(* 2 * player - zone centre, held over the denominator mobCount *)
EscapeFrom(zone, pos, center) ==
  [ x |-> 2 * PlayerX(pos, center) * zone.mobCount - zone.sumX,
    y |-> 2 * PlayerY(pos, center) * zone.mobCount - zone.sumY,
    den |-> zone.mobCount ]

(* Priority 1: avoid danger zone *)
AvoidRule(r, zones, pos, center, cfg) ==
  IF PlayerNearDanger(zones, pos, center) /\ cfg.avoidDangerZones
    THEN IF Len(zones) > 0
      THEN [r EXCEPT !.newState = "avoiding",
                     !.action = Some(Action("move", None, None,
                                  Some(EscapeFrom(zones[1], pos, center)),
                                  "Weiche Danger Zone aus")),
                     !.dangersAvoided = @ + 1]
      ELSE [r EXCEPT !.newState = "avoiding"]
    ELSE r

(* the heal rule without the test that no action was chosen yet *)
HealRuleUnguarded(r, roster, playerHp, now, cfg) ==
  IF playerHp <= cfg.healThreshold
    THEN LET healSkill == FindHealSkill(roster, now) IN
      IF healSkill # None
        THEN [r EXCEPT !.newState = "healing",
                       !.action = Some(Action("skill", healSkill, None, None, "HP kritisch"))]
        ELSE r
    ELSE r

(* Priority 2: heal if low HP *)
HealRule(r, roster, playerHp, now, cfg) ==
  IF r.action = None /\ playerHp <= cfg.healThreshold
    THEN LET healSkill == FindHealSkill(roster, now) IN
      IF healSkill # None
        THEN [r EXCEPT !.newState = "healing",
                       !.action = Some(Action("skill", healSkill, None, None, "HP kritisch"))]
        ELSE r
    ELSE r

SwitchTargetOnAnyGain(current, topTarget) ==
  current = None \/ topTarget.priority > current[1].priority

SwitchTarget(current, topTarget) ==
  current = None \/ 10 * topTarget.priority > 12 * current[1].priority

(* Priority 3: combat with the safe targets *)
CombatRule(r, safeTargets, roster, pos, center, now, cfg) ==
  LET topTarget == safeTargets[1]
      isAoeOpportunity == Len(safeTargets) >= cfg.aoeThreshold
      r1 == IF SwitchTarget(r.currentTarget, topTarget)
              THEN [r EXCEPT !.currentTarget = Some(topTarget)] ELSE r
      targetX == CenterX(topTarget.detection)
      targetY == CenterY(topTarget.detection)
  IN IF topTarget.distance > cfg.maxAttackRange
       THEN [r1 EXCEPT !.newState = "approaching",
                       !.action = Some(Action("move", None, Some(topTarget),
                                    Some([x |-> targetX, y |-> targetY, den |-> 1]),
                                    "Naehert sich"))]
     ELSE IF topTarget.distance < cfg.minAttackRange /\ cfg.kiteEnabled
       THEN [r1 EXCEPT !.newState = "kiting",
                       !.action = Some(Action("move", None, None,
                                    Some([x |-> 2 * PlayerX(pos, center) - targetX,
                                          y |-> 2 * PlayerY(pos, center) - targetY,
                                          den |-> 1]),
                                    "Kiting - Ziel zu nah"))]
     ELSE IF isAoeOpportunity /\ ~cfg.avoidDangerZones
       THEN LET aoeSkill == getAvailableSkill(roster, now, TRUE, Len(safeTargets)) IN
         IF aoeSkill # None
           THEN [r1 EXCEPT !.newState = "aoe",
                           !.action = Some(Action("skill", aoeSkill, None, None, "AoE auf")),
                           !.aoeHits = @ + Len(safeTargets)]
           ELSE [r1 EXCEPT !.newState = "aoe"]
     ELSE LET skill == getAvailableSkill(roster, now, FALSE, 1) IN
         IF skill # None
           THEN [r1 EXCEPT !.newState = "combat",
                           !.action = Some(Action("skill", skill, Some(topTarget), None, "auf")),
                           !.skillsUsed = @ + 1]
           ELSE [r1 EXCEPT !.newState = "combat"]

LootRuleStateOnly(r, lootItems) == [r EXCEPT !.newState = "looting"]

LootRule(r, lootItems) ==
  [r EXCEPT !.newState = "looting",
            !.action = Some(Action("loot", None, None, None, "Sammle"))]

(* the fallback with its first two tests in the other order *)
FallbackRuleGroupsFirst(r, prioritizedTargets, safeTargets, cfg) ==
  IF Len(safeTargets) = 0 /\ cfg.avoidDangerZones
    THEN [r EXCEPT !.newState = "avoiding",
                   !.action = Some(Action("wait", None, None, None, "Nur Gruppen sichtbar"))]
  ELSE IF Len(prioritizedTargets) = 0
    THEN [r EXCEPT !.newState = "searching",
                   !.action = Some(Action("wait", None, None, None, "Suche nach Zielen..."))]
  ELSE [r EXCEPT !.newState = "idle", !.currentTarget = None]

(* Nothing to do *)
FallbackRule(r, prioritizedTargets, safeTargets, cfg) ==
  IF Len(prioritizedTargets) = 0
    THEN [r EXCEPT !.newState = "searching",
                   !.action = Some(Action("wait", None, None, None, "Suche nach Zielen..."))]
  ELSE IF Len(safeTargets) = 0 /\ cfg.avoidDangerZones
    THEN [r EXCEPT !.newState = "avoiding",
                   !.action = Some(Action("wait", None, None, None, "Nur Gruppen sichtbar"))]
  ELSE [r EXCEPT !.newState = "idle", !.currentTarget = None]

(* the if / else-if / else-if chain of Priority 3, loot and fallback *)
TargetRules(r, prioritizedTargets, safeTargets, lootItems, roster, pos, center, now, cfg) ==
  IF r.action = None /\ Len(safeTargets) > 0
    THEN CombatRule(r, safeTargets, roster, pos, center, now, cfg)
  ELSE IF r.action = None /\ Len(lootItems) > 0 /\ cfg.autoLoot
    THEN LootRule(r, lootItems)
  ELSE IF r.action = None
    THEN FallbackRule(r, prioritizedTargets, safeTargets, cfg)
  ELSE r

(* "Mark skill as used" *)
MarkUsed(roster, action, now) ==
  IF action # None /\ action[1].skill # None
    THEN [i \in 1..Len(roster) |->
            IF roster[i].id = action[1].skill[1].id
              THEN [roster[i] EXCEPT !.lastUsed = now] ELSE roster[i]]
    ELSE roster

----------------------------------------------------------------------------
(* One call of processFrame(detections, video, container, playerHp) at time *)
(* now: every state update the call makes.                                  *)

FindPlayer(detections) ==
  LET found == SelectSeq(detections, IsPlayer)
  IN IF found # <<>> THEN Some(found[1]) ELSE None

TrackPlayer(detections, pos, now) ==
  LET playerDetection == FindPlayer(detections) IN
  IF playerDetection # None
    THEN Some([x |-> CenterX(playerDetection[1]),
               y |-> CenterY(playerDetection[1]), timestamp |-> now])
    ELSE pos

(* Priority 0: the stuck check runs only while approaching with a tracked position *)
StuckCheck(state, pos, lastPos, stuckTimer, now, cfg) ==
  IF state = "approaching" /\ pos # None
    THEN checkStuck(pos[1], lastPos, stuckTimer, now, cfg.stuckTimeout)
    ELSE [isStuck |-> FALSE, lastPosition |-> lastPos, stuckTimer |-> stuckTimer]

JumpAction == Action("jump", None, None, None, "Stuck - Springe!")

(* the values the call computes from the state it read *)
FrameResult(detections, playerHp, now) ==
  LET pr == prioritizeTargets(detections, screenCenter, config)
      enemyDetections == Enemies(detections)
      lootItems == SelectSeq(detections, IsLoot)
      safeTargets == SafeTargets(pr.targets, config)
      r0 == [ newState |-> combatState, action |-> None,
              currentTarget |-> currentTarget,
              skillsUsed |-> combatStats.skillsUsed, aoeHits |-> combatStats.aoeHits,
              dangersAvoided |-> combatStats.dangersAvoided ]
      r1 == AvoidRule(r0, dangerZones, playerPosition, screenCenter, config)
      r2 == HealRule(r1, skills, playerHp, now, config)
  IN [ pr |-> pr,
       currentIds |-> IdsOf(enemyDetections),
       killCount |-> combatStats.killCount + trackKills(previousTargetsRef, enemyDetections),
       position |-> TrackPlayer(detections, playerPosition, now),
       stuck |-> StuckCheck(combatState, playerPosition, lastPositionRef,
                            stuckTimerRef, now, config),
       r |-> TargetRules(r2, pr.targets, safeTargets, lootItems, skills,
                         playerPosition, screenCenter, now, config) ]

(* the combat state the call leaves: the stuck path returns before *)
(* setCombatState, every other path stores newState                *)
SelectedState(detections, playerHp, now) ==
  LET o == FrameResult(detections, playerHp, now)
  IN IF o.stuck.isStuck THEN combatState ELSE o.r.newState

processFrame(detections, playerHp, now) ==
  \E o \in {FrameResult(detections, playerHp, now)} :
     /\ nearbyTargets' = o.pr.targets
     /\ dangerZones' = o.pr.zones
     /\ previousTargetsRef' = o.currentIds
     /\ playerPosition' = o.position
     /\ lastPositionRef' = o.stuck.lastPosition
     /\ approachSince' =
          IF o.stuck.isStuck THEN Some(now)
          ELSE IF o.r.newState # "approaching" THEN None
          ELSE IF combatState = "approaching" THEN approachSince
          ELSE Some(now)
     /\ IF o.stuck.isStuck
          THEN /\ lastAction' = Some(JumpAction)
               /\ stuckTimerRef' = now
               /\ combatStats' = [combatStats EXCEPT !.killCount = o.killCount]
               /\ UNCHANGED <<combatState, currentTarget, skills>>
          ELSE /\ lastAction' = o.r.action
               /\ stuckTimerRef' = o.stuck.stuckTimer
               /\ combatState' = o.r.newState
               /\ currentTarget' = o.r.currentTarget
               /\ skills' = MarkUsed(skills, o.r.action, now)
               /\ combatStats' = [combatStats EXCEPT
                                    !.killCount = o.killCount,
                                    !.skillsUsed = o.r.skillsUsed,
                                    !.aoeHits = o.r.aoeHits,
                                    !.dangersAvoided = o.r.dangersAvoided]

----------------------------------------------------------------------------
(* The detections a tick may carry *)

Det(type, cx, cy) ==
  [ type |-> type, x |-> 0, y |-> 0, width |-> 0, height |-> 0,
    centerX |-> Some(cx), centerY |-> Some(cy) ]

(* a detection that carries its box only *)
BoxDet(type, x, y, width, height) ==
  [ type |-> type, x |-> x, y |-> y, width |-> width, height |-> height,
    centerX |-> None, centerY |-> None ]

(* in the order a frame lists them; the screen centre is (50, 50) *)
DetectionPool ==
  << Det("mob", 14, 2),                     \* 60 from the centre, alone
     Det("mob", 200, 50),                   \* 150 from the centre
     BoxDet("Elite_Mob", 280, 20, 40, 60),  \* centre (300, 50): 250 away, 100 from the last
     Det("loot", 50, 90),
     Det("player", 14, 50) >>

(* id: index, as the perception boundary assigns it *)
WithIds(q) == [i \in 1..Len(q) |-> [id |-> i - 1] @@ q[i]]

RECURSIVE Pick(_, _)
Pick(q, chosen) ==
  IF q = <<>> THEN <<>>
  ELSE (IF Len(q) \in chosen THEN Pick(SubSeq(q, 1, Len(q) - 1), chosen) \o <<q[Len(q)]>>
        ELSE Pick(SubSeq(q, 1, Len(q) - 1), chosen))

Frames ==
  { WithIds(Pick(DetectionPool, chosen)) :
      chosen \in {c \in SUBSET (1..Len(DetectionPool)) : Cardinality(c) <= MaxDet} }

PlayerHps == {25, 100}
Elapsed == {200, 3000}

----------------------------------------------------------------------------
(* Numbers that are not integers: a quotient is the pair of a numerator and *)
(* a positive denominator in lowest terms; denominator 0 stands for the     *)
(* non-finite results of a division by zero (num 0: NaN, else +-Infinity).  *)

RECURSIVE Gcd(_, _)
Gcd(a, b) == IF b = 0 THEN a ELSE Gcd(b, a % b)

Sign(n) == IF n > 0 THEN 1 ELSE IF n < 0 THEN -1 ELSE 0

Rat(n, d) ==
  IF d = 0 THEN [num |-> Sign(n), den |-> 0]
  ELSE LET g == Gcd(Abs(n), Abs(d)) IN
       [num |-> (Sign(d) * n) \div g, den |-> Abs(d) \div g]

Whole(n) == [num |-> n, den |-> 1]

IsNaN(a) == a.num = 0 /\ a.den = 0

Plus(a, b) ==
  IF a.den = 0 /\ b.den = 0 THEN (IF a.num = b.num THEN a ELSE Rat(0, 0))
  ELSE Rat(a.num * b.den + b.num * a.den, a.den * b.den)

Times(a, b) == Rat(a.num * b.num, a.den * b.den)

Over(a, b) == Rat(a.num * b.den, a.den * b.num)

Greater(a, b) == a.num * b.den > b.num * a.den

(* === on two numbers: NaN equals nothing *)
SameNumber(a, b) == ~IsNaN(a) /\ ~IsNaN(b) /\ a = b

----------------------------------------------------------------------------
(* useCoordinateMapping *)

updateVideoMetrics(video, container) ==
  IF video.videoWidth = 0 \/ video.videoHeight = 0
    THEN [ videoWidth |-> Whole(1920), videoHeight |-> Whole(1080),
           displayWidth |-> Whole(container.clientWidth),
           displayHeight |-> Whole(container.clientHeight),
           offsetX |-> Whole(0), offsetY |-> Whole(0), scale |-> Whole(1) ]
  ELSE
    LET videoAspect == Rat(video.videoWidth, video.videoHeight)
        containerAspect == Rat(container.clientWidth, container.clientHeight)
        wider == Greater(videoAspect, containerAspect)
        displayWidth == IF wider THEN Whole(container.clientWidth)
                        ELSE Times(Whole(container.clientHeight), videoAspect)
        displayHeight == IF wider THEN Over(Whole(container.clientWidth), videoAspect)
                         ELSE Whole(container.clientHeight)
        offsetX == IF wider THEN Whole(0)
                   ELSE Over(Plus(Whole(container.clientWidth), Times(Whole(-1), displayWidth)),
                             Whole(2))
        offsetY == IF wider
                     THEN Over(Plus(Whole(container.clientHeight),
                                    Times(Whole(-1), displayHeight)), Whole(2))
                   ELSE Whole(0)
    IN [ videoWidth |-> Whole(video.videoWidth), videoHeight |-> Whole(video.videoHeight),
         displayWidth |-> displayWidth, displayHeight |-> displayHeight,
         offsetX |-> offsetX, offsetY |-> offsetY,
         scale |-> Over(displayWidth, Whole(video.videoWidth)) ]

(* the centre of the box, in percent of the frame *)
BoxCenter(detection) ==
  [ x |-> Plus(Whole(detection.x), Rat(detection.width, 2)),
    y |-> Plus(Whole(detection.y), Rat(detection.height, 2)) ]

detectionToViewport(detection, metrics) ==
  LET c == BoxCenter(detection) IN
  [ x |-> Plus(Times(Over(c.x, Whole(100)), metrics.displayWidth), metrics.offsetX),
    y |-> Plus(Times(Over(c.y, Whole(100)), metrics.displayHeight), metrics.offsetY) ]

TotalWidth(metrics) == Plus(metrics.displayWidth, Times(metrics.offsetX, Whole(2)))
TotalHeight(metrics) == Plus(metrics.displayHeight, Times(metrics.offsetY, Whole(2)))

(* normalizing by the displayed size alone, without the bars *)
viewportToNormalizedDisplay(x, y, metrics) ==
  [ x |-> Over(x, metrics.displayWidth), y |-> Over(y, metrics.displayHeight) ]

viewportToNormalized(x, y, metrics) ==
  [ x |-> Over(x, TotalWidth(metrics)), y |-> Over(y, TotalHeight(metrics)) ]

detectionToNormalized(detection, metrics) ==
  LET viewport == detectionToViewport(detection, metrics) IN
  [ x |-> Over(viewport.x, TotalWidth(metrics)),
    y |-> Over(viewport.y, TotalHeight(metrics)) ]

(* the video and the container of the preview while frames are processed *)
FrameVideo == [videoWidth |-> 1920, videoHeight |-> 1080]
FrameContainer == [clientWidth |-> 800, clientHeight |-> 450]

----------------------------------------------------------------------------
(* useVisionState *)

DEFAULT_STATE ==
  [ playerHp |-> 100, playerMana |-> 100, enemies |-> <<>>, resources |-> <<>>,
    loot |-> <<>>, isStreamActive |-> FALSE, status |-> "idle" ]

ENEMY_TYPES == {"enemy", "enemy_nameplate", "hostile", "mob"}
RESOURCE_TYPES == {"ore", "herb", "resource", "resource_node"}
LOOT_TYPES == {"loot", "item", "corpse"}
HP_TYPES == {"our-hp", "our_hp", "player_hp", "player-hp", "player_hp_bar"}
MANA_TYPES == {"mana", "player_mana", "our-mana", "our_mana"}

maxBarWidth == 250

extractHpFromDetection(detection) ==
  IF detection.width > 0
    THEN IF detection.rawWidth # None /\ detection.rawWidth[1] # 0
           THEN Min(100, (detection.rawWidth[1] * 100) \div maxBarWidth)
         ELSE Min(100, detection.width)
  ELSE 100

extractManaFromDetection(detection) ==
  IF detection.width > 0
    THEN IF detection.rawWidth # None /\ detection.rawWidth[1] # 0
           THEN Min(100, (detection.rawWidth[1] * 100) \div maxBarWidth)
         ELSE Min(100, detection.width)
  ELSE 100

matchesType(detectionType, types) ==
  LET lower == ToLowerCase(detectionType)
  IN \E t \in types : Includes(lower, ToLowerCase(t))

(* the pools pushed everything into one list *)
ClassifyAllEnemies(acc, det) ==
  LET type == ToLowerCase(det.type) IN
  IF matchesType(type, HP_TYPES) THEN [acc EXCEPT !.newHp = extractHpFromDetection(det)]
  ELSE IF matchesType(type, MANA_TYPES)
    THEN [acc EXCEPT !.newMana = extractManaFromDetection(det)]
  ELSE IF matchesType(type, ENEMY_TYPES) THEN [acc EXCEPT !.enemies = Append(@, det)]
  ELSE IF matchesType(type, RESOURCE_TYPES)
    THEN [acc EXCEPT !.resources = Append(@, det), !.enemies = Append(@, det)]
  ELSE IF matchesType(type, LOOT_TYPES) THEN [acc EXCEPT !.loot = Append(@, det)]
  ELSE acc

(* one pass of the for loop of updateFromDetections *)
Classify(acc, det) ==
  LET type == ToLowerCase(det.type) IN
  IF matchesType(type, HP_TYPES) THEN [acc EXCEPT !.newHp = extractHpFromDetection(det)]
  ELSE IF matchesType(type, MANA_TYPES)
    THEN [acc EXCEPT !.newMana = extractManaFromDetection(det)]
  ELSE IF matchesType(type, ENEMY_TYPES) THEN [acc EXCEPT !.enemies = Append(@, det)]
  ELSE IF matchesType(type, RESOURCE_TYPES) THEN [acc EXCEPT !.resources = Append(@, det)]
  ELSE IF matchesType(type, LOOT_TYPES) THEN [acc EXCEPT !.loot = Append(@, det)]
  ELSE acc

RECURSIVE ClassifyAll(_, _)
ClassifyAll(acc, detections) ==
  IF detections = <<>> THEN acc
  ELSE ClassifyAll(Classify(acc, Head(detections)), Tail(detections))

(* the state setState(prev => ...) of updateFromDetections returns *)
Classified(prev, detections) ==
  LET acc == ClassifyAll([ enemies |-> <<>>, resources |-> <<>>, loot |-> <<>>,
                           newHp |-> prev.playerHp, newMana |-> prev.playerMana ],
                         detections)
  IN [prev EXCEPT !.playerHp = acc.newHp, !.playerMana = acc.newMana,
                  !.enemies = acc.enemies, !.resources = acc.resources,
                  !.loot = acc.loot]

----------------------------------------------------------------------------
(* Actions *)

(* what sendAction hands to fetch: nothing while the service is disabled *)
sendAction(payload, enabled) == IF ~enabled THEN <<>> ELSE <<payload>>

sendKeypress(key, enabled) == sendAction([type |-> "keypress", key |-> key], enabled)

Clamp01(q) == IF Greater(Whole(0), q) THEN Whole(0)
              ELSE IF Greater(q, Whole(1)) THEN Whole(1) ELSE q

sendMove(x, y, enabled) ==
  sendAction([type |-> "move", x |-> Clamp01(x), y |-> Clamp01(y)], enabled)

(* the payloads one executeAction call sends, with the flags its closure holds *)
executeAction(action, combatEnabled, enabled, center, metrics) ==
  IF ~combatEnabled THEN <<>>
  ELSE CASE action.type = "move" ->
              IF action.direction # None
                THEN LET den == action.direction[1].den   \* dx, dy in units of 1/den
                         dx == action.direction[1].x - center.x * den
                         dy == action.direction[1].y - center.y * den
                     IN IF Abs(dx) > Abs(dy)
                          THEN sendKeypress(IF dx > 0 THEN "d" ELSE "a", enabled)
                        ELSE sendKeypress(IF dy > 0 THEN "s" ELSE "w", enabled)
              ELSE <<>>
         [] action.type = "skill" ->
              IF action.skill # None THEN sendKeypress(action.skill[1].keybind, enabled)
              ELSE <<>>
         [] action.type = "jump" -> sendKeypress("space", enabled)
         [] action.type = "target" ->
              IF action.target # None /\ metrics # None
                THEN LET normalized ==
                           detectionToNormalized(action.target[1].detection, metrics[1])
                     IN sendMove(normalized.x, normalized.y, enabled)
              ELSE <<>>
         [] OTHER -> <<>>

(* processFrame's two calls of executeAction: the stuck path calls it at once, *)
(* the other paths when an action was chosen and config.combatEnabled holds    *)
Dispatched(action, combatEnabled, enabled) ==
  IF action = None THEN <<>>
  ELSE executeAction(action[1], combatEnabled, enabled, screenCenter,
                     Some(updateVideoMetrics(FrameVideo, FrameContainer)))

TickBody(detections, playerHp, dt) ==
  /\ clock' = clock + dt
  /\ lastFrame' = [detections |-> detections, playerHp |-> playerHp,
                   tick |-> lastFrame.tick + 1]
  /\ processFrame(detections, playerHp, clock + dt)
  /\ metricsRef' = Some(updateVideoMetrics(FrameVideo, FrameContainer))
  /\ sent' = sent \o Dispatched(lastAction', config.combatEnabled, actionConfig.enabled)
  /\ UNCHANGED <<config, screenCenter, updates>>
  /\ UNCHANGED <<visionState, isCapturing, lastMapping, lastRequest, lastClassified,
                 actionConfig, pending, inFlight>>

Tick(detections, playerHp, dt) ==
  /\ lastFrame.tick < MaxTicks
  /\ TickBody(detections, playerHp, dt)

ConfigPatches ==
  { [avoidDangerZones |-> FALSE, aoeThreshold |-> 2],
    [mobDensityThreshold |-> 1],
    [mobDensityThreshold |-> 1, avoidDangerZones |-> FALSE],
    [minAttackRange |-> 100],
    [minAttackRange |-> 100, maxAttackRange |-> 50],
    [minAttackRange |-> 100, kiteEnabled |-> FALSE],
    [autoLoot |-> FALSE] }

Merge(cfg, newConfig) ==
  [f \in DOMAIN cfg |-> IF f \in DOMAIN newConfig THEN newConfig[f] ELSE cfg[f]]

updateConfig(newConfig) ==
  /\ updates < MaxUpdates
  /\ updates' = updates + 1
  /\ config' = Merge(config, newConfig)
  /\ UNCHANGED <<combatState, currentTarget, nearbyTargets, dangerZones, lastAction,
                 skills, playerPosition, screenCenter, combatStats, lastPositionRef,
                 stuckTimerRef, previousTargetsRef, clock, lastFrame, metricsRef>>
  /\ UNCHANGED outside

Rosters ==
  { <<>>,
    << Skill("6", "Greater Healing", 5000, 1, FALSE, None),
       Skill("5", "Heal", 15000, 2, FALSE, None),
       Skill("3", "AoE Skill", 10000, 3, TRUE, Some(3)) >> }

updateSkills(newSkills) ==
  /\ updates < MaxUpdates
  /\ updates' = updates + 1
  /\ skills' = newSkills
  /\ UNCHANGED <<combatState, currentTarget, nearbyTargets, dangerZones, lastAction,
                 config, playerPosition, screenCenter, combatStats, lastPositionRef,
                 stuckTimerRef, previousTargetsRef, clock, lastFrame, metricsRef>>
  /\ UNCHANGED outside

InitialStats ==
  [killCount |-> 0, damageDealt |-> 0, skillsUsed |-> 0, aoeHits |-> 0, dangersAvoided |-> 0]

resetStats ==
  /\ updates < MaxUpdates
  /\ updates' = updates + 1
  /\ combatStats' = InitialStats
  /\ UNCHANGED <<combatState, currentTarget, nearbyTargets, dangerZones, lastAction,
                 skills, config, playerPosition, screenCenter, lastPositionRef,
                 stuckTimerRef, previousTargetsRef, clock, lastFrame, metricsRef>>
  /\ UNCHANGED outside

Init ==
  /\ combatState = "idle"
  /\ currentTarget = None
  /\ nearbyTargets = <<>>
  /\ dangerZones = <<>>
  /\ lastAction = None
  /\ skills = DEFAULT_SKILLS
  /\ config = DEFAULT_CONFIG
  /\ playerPosition = None
  /\ screenCenter = [x |-> 50, y |-> 50]
  /\ combatStats = InitialStats
  /\ lastPositionRef = None
  /\ stuckTimerRef = 0
  /\ previousTargetsRef = {}
  /\ clock = StartTime
  /\ lastFrame = [detections |-> <<>>, playerHp |-> 100, tick |-> 0]
  /\ updates = 0
  /\ metricsRef = None
  /\ visionState = DEFAULT_STATE
  /\ isCapturing = FALSE
  /\ lastMapping = None
  /\ lastRequest = None
  /\ lastClassified = None
  /\ actionConfig = [enabled |-> FALSE]
  /\ sent = <<>>
  /\ pending = <<>>
  /\ inFlight = <<>>
  /\ approachSince = None

Next ==
  \/ \E detections \in Frames, playerHp \in PlayerHps, dt \in Elapsed :
       Tick(detections, playerHp, dt)
  \/ \E newConfig \in ConfigPatches : updateConfig(newConfig)
  \/ \E newSkills \in Rosters : updateSkills(newSkills)
  \/ resetStats

Spec == Init /\ [][Next]_vars

(* A longer run of ticks at full health, under the default configuration *)
LongTick(detections, dt) ==
  /\ lastFrame.tick < MaxTicks + 1
  /\ TickBody(detections, 100, dt)

NextRun ==
  \/ \E detections \in Frames, dt \in Elapsed : LongTick(detections, dt)
  \/ resetStats

SpecRun == Init /\ [][NextRun]_vars

----------------------------------------------------------------------------
(* prioritizeTargets (with detectDangerZones and countNeighbors) on its own: *)
(* the configuration is drawn at the start, the step hands it one enemy list   *)

PurePool ==
  { Det("mob", 50, 50), Det("mob", 50, 150), Det("mob", 50, 200),
    Det("mob", 130, 110), Det("mob", 140, 170), Det("Elite_Mob", 50, 350),
    Det("loot", 50, 150) }

RECURSIVE SeqsUpTo(_, _)
SeqsUpTo(S, n) ==
  IF n = 0 THEN {<<>>}
  ELSE LET shorter == SeqsUpTo(S, n - 1) IN
    shorter \cup {Append(q, e) : q \in {p \in shorter : Len(p) = n - 1}, e \in S}

PureFrames == {WithIds(q) : q \in SeqsUpTo(PurePool, MaxEnemies)}

PureConfigs ==
  { Merge(DEFAULT_CONFIG, [safetyDistance |-> s, mobDensityThreshold |-> k,
                           maxTargetDistance |-> m]) :
      s \in {50, 100, 150}, k \in {1, 2, 3}, m \in {100, 500} }

InitPure ==
  /\ Init!1 /\ Init!2 /\ Init!3 /\ Init!4 /\ Init!5 /\ Init!6
  /\ config \in PureConfigs
  /\ Init!8 /\ Init!9 /\ Init!10 /\ Init!11 /\ Init!12 /\ Init!13 /\ Init!14
  /\ Init!15 /\ Init!16 /\ Init!17 /\ Init!18 /\ Init!19 /\ Init!20
  /\ Init!21 /\ Init!22 /\ Init!23 /\ Init!24 /\ Init!25 /\ Init!26
  /\ Init!27

Prioritize(detections) ==
  /\ lastFrame.tick = 0
  /\ \E pr \in {prioritizeTargets(detections, screenCenter, config)} :
       /\ dangerZones' = pr.zones
       /\ nearbyTargets' = pr.targets
  /\ lastFrame' = [lastFrame EXCEPT !.detections = detections, !.tick = 1]
  /\ UNCHANGED <<combatState, currentTarget, lastAction, skills, config, playerPosition,
                 screenCenter, combatStats, lastPositionRef, stuckTimerRef,
                 previousTargetsRef, clock, updates, metricsRef>>
  /\ UNCHANGED outside

NextPure == \E detections \in PureFrames : Prioritize(detections)

SpecPure == InitPure /\ [][NextPure]_vars

----------------------------------------------------------------------------
(* prioritizeTargets under varied weights and preferred types *)

Weights(d, h, t, th, i) ==
  [distance |-> d, hp |-> h, type |-> t, threat |-> th, isolation |-> i]

WeightSets ==
  { DEFAULT_CONFIG.priorityWeights, Weights(0, 0, 0, 0, 0), Weights(100, 0, 0, 0, 0),
    Weights(0, 100, 0, 0, 0), Weights(0, 0, 100, 0, 0), Weights(0, 0, 0, 100, 0),
    Weights(0, 0, 0, 0, 100), Weights(50, 0, 50, 0, 50) }

ScoreConfigs ==
  { Merge(DEFAULT_CONFIG, [priorityWeights |-> w, preferredTargetTypes |-> p,
                           maxTargetDistance |-> m]) :
      w \in WeightSets, p \in {DEFAULT_CONFIG.preferredTargetTypes, <<"mob">>, <<>>},
      m \in {100, 500} }

InitScore ==
  /\ Init!1 /\ Init!2 /\ Init!3 /\ Init!4 /\ Init!5 /\ Init!6
  /\ config \in ScoreConfigs
  /\ Init!8 /\ Init!9 /\ Init!10 /\ Init!11 /\ Init!12 /\ Init!13 /\ Init!14
  /\ Init!15 /\ Init!16 /\ Init!17 /\ Init!18 /\ Init!19 /\ Init!20
  /\ Init!21 /\ Init!22 /\ Init!23 /\ Init!24 /\ Init!25 /\ Init!26
  /\ Init!27

SpecScore == InitScore /\ [][NextPure]_vars

----------------------------------------------------------------------------
(* useCoordinateMapping on its own: metrics are measured, then a detection  *)
(* is mapped with the measured metrics                                      *)

Videos ==
  { [videoWidth |-> 0, videoHeight |-> 0], FrameVideo,
    [videoWidth |-> 1000, videoHeight |-> 1000] }

Containers ==
  { FrameContainer, [clientWidth |-> 800, clientHeight |-> 600],
    [clientWidth |-> 1000, clientHeight |-> 450], [clientWidth |-> 800, clientHeight |-> 0],
    [clientWidth |-> 0, clientHeight |-> 0] }

MapBoxes ==
  { BoxDet("mob", 40, 40, 20, 20), BoxDet("mob", 0, 0, 50, 50), BoxDet("mob", 90, 80, 20, 40),
    BoxDet("mob", 0, 0, 0, 0), BoxDet("mob", 10, 20, 5, 5), BoxDet("mob", 50, 0, 50, 100),
    BoxDet("mob", 100, 100, 0, 0) }

MeasureMetrics(video, container) ==
  /\ metricsRef' = Some(updateVideoMetrics(video, container))
  /\ UNCHANGED <<combatState, currentTarget, nearbyTargets, dangerZones, lastAction,
                 skills, config, playerPosition, screenCenter, combatStats,
                 lastPositionRef, stuckTimerRef, previousTargetsRef, clock, lastFrame,
                 updates>>
  /\ UNCHANGED outside

MapDetection(detection) ==
  /\ metricsRef # None
  /\ LET metrics == metricsRef[1]
         viewport == detectionToViewport(detection, metrics)
     IN lastMapping' = Some([ detection |-> detection, metrics |-> metrics,
                              viewport |-> viewport,
                              normalized |-> viewportToNormalized(viewport.x, viewport.y, metrics),
                              direct |-> detectionToNormalized(detection, metrics) ])
  /\ UNCHANGED <<combatState, currentTarget, nearbyTargets, dangerZones, lastAction,
                 skills, config, playerPosition, screenCenter, combatStats,
                 lastPositionRef, stuckTimerRef, previousTargetsRef, clock, lastFrame,
                 updates, metricsRef, visionState, isCapturing, lastRequest, lastClassified>>
  /\ UNCHANGED service
  /\ UNCHANGED history

NextMap ==
  \/ \E video \in Videos, container \in Containers : MeasureMetrics(video, container)
  \/ \E detection \in MapBoxes : MapDetection(detection)

SpecMap == Init /\ [][NextMap]_vars

----------------------------------------------------------------------------
(* getAvailableSkill on its own: a roster is drawn at the start, the step   *)
(* asks the scheduler once                                                  *)

UsedAt(skill, lastUsed) == [skill EXCEPT !.lastUsed = lastUsed]

SkillPool ==
  { Skill("a", "Hauptangriff", 0, 1, FALSE, None),
    UsedAt(Skill("b", "Starker Angriff", 5000, 4, FALSE, None), StartTime - 1000),
    Skill("c", "AoE Skill", 10000, 3, TRUE, Some(3)),
    Skill("d", "Wirbel", 2000, 2, TRUE, None),
    Skill("e", "Stoss", 1000, 3, FALSE, None),
    Skill("f", "Buff", 30000, 2, FALSE, None) }

(* ids as the skill panel keeps them: one per roster entry *)
WithSkillIds(q) == [i \in 1..Len(q) |-> [q[i] EXCEPT !.id = i, !.keybind = i]]

SkillRosters == {WithSkillIds(q) : q \in SeqsUpTo(SkillPool, MaxEnemies)}

NearbyCounts == {1, 2, 3}

InitSkill ==
  /\ Init!1 /\ Init!2 /\ Init!3 /\ Init!4 /\ Init!5
  /\ skills \in SkillRosters
  /\ Init!7 /\ Init!8 /\ Init!9 /\ Init!10 /\ Init!11 /\ Init!12 /\ Init!13 /\ Init!14
  /\ Init!15 /\ Init!16 /\ Init!17 /\ Init!18 /\ Init!19 /\ Init!20
  /\ Init!21 /\ Init!22 /\ Init!23 /\ Init!24 /\ Init!25 /\ Init!26
  /\ Init!27

RequestSkill(isAoeNeeded, nearbyCount) ==
  /\ lastRequest' = Some([ isAoeNeeded |-> isAoeNeeded, nearbyCount |-> nearbyCount,
                           result |-> getAvailableSkill(skills, clock, isAoeNeeded,
                                                        nearbyCount) ])
  /\ UNCHANGED <<combatState, currentTarget, nearbyTargets, dangerZones, lastAction,
                 skills, config, playerPosition, screenCenter, combatStats,
                 lastPositionRef, stuckTimerRef, previousTargetsRef, clock, lastFrame,
                 updates, metricsRef, visionState, isCapturing, lastMapping, lastClassified>>
  /\ UNCHANGED service
  /\ UNCHANGED history

NextSkill ==
  \E isAoeNeeded \in BOOLEAN, nearbyCount \in NearbyCounts :
    RequestSkill(isAoeNeeded, nearbyCount)

SpecSkill == InitSkill /\ [][NextSkill]_vars



----------------------------------------------------------------------------
(* detectDangerZones over small density thresholds, 0 included *)

ZoneConfigs ==
  { Merge(DEFAULT_CONFIG, [safetyDistance |-> s, mobDensityThreshold |-> k]) :
      s \in {50, 100}, k \in {0, 1, 2} }

InitZone ==
  /\ Init!1 /\ Init!2 /\ Init!3 /\ Init!4 /\ Init!5 /\ Init!6
  /\ config \in ZoneConfigs
  /\ Init!8 /\ Init!9 /\ Init!10 /\ Init!11 /\ Init!12 /\ Init!13 /\ Init!14
  /\ Init!15 /\ Init!16 /\ Init!17 /\ Init!18 /\ Init!19 /\ Init!20
  /\ Init!21 /\ Init!22 /\ Init!23 /\ Init!24 /\ Init!25 /\ Init!26
  /\ Init!27

SpecZone == InitZone /\ [][NextPure]_vars

----------------------------------------------------------------------------
(* useVisionState on its own: updateFromDetections, frame after frame *)

MaxSeen == 2

VisionDet(type, width, rawWidth) ==
  [ type |-> type, x |-> 0, y |-> 0, width |-> width, height |-> 10,
    rawWidth |-> rawWidth ]

VisionPool ==
  << VisionDet("our_hp", 30, None),
     VisionDet("Player_HP_Bar", 40, Some(125)),
     VisionDet("our_hp", 0, None),
     VisionDet("our_hp", 100, Some(300)),
     VisionDet("player_mana", 20, None),
     VisionDet("mob", 10, None),
     VisionDet("enemy_corpse", 10, None),
     VisionDet("herb", 10, None),
     VisionDet("loot", 10, None),
     VisionDet("tree", 10, None) >>

VisionFrames ==
  { WithIds(Pick(VisionPool, chosen)) :
      chosen \in {c \in SUBSET (1..Len(VisionPool)) : Cardinality(c) <= MaxSeen} }

updateFromDetections(detections) ==
  /\ visionState' = Classified(visionState, detections)
  /\ lastClassified' = Some(detections)
  /\ UNCHANGED <<combatState, currentTarget, nearbyTargets, dangerZones, lastAction,
                 skills, config, playerPosition, screenCenter, combatStats,
                 lastPositionRef, stuckTimerRef, previousTargetsRef, clock, lastFrame,
                 updates, metricsRef, isCapturing, lastMapping, lastRequest>>
  /\ UNCHANGED service
  /\ UNCHANGED history

NextVision == \E detections \in VisionFrames : updateFromDetections(detections)

SpecVision == Init /\ [][NextVision]_vars

----------------------------------------------------------------------------
(* DetectionPreview: a capture session feeds the inference loop, whose pass   *)
(* hands the frame to updateFromDetections and, when it has detections, to    *)
(* processFrame with the HP of the vision state the pass was rendered with    *)

startScreenCapture ==
  /\ ~isCapturing
  /\ isCapturing' = TRUE
  /\ visionState' = [visionState EXCEPT !.isStreamActive = TRUE, !.status = "ready"]
  /\ UNCHANGED <<combatState, currentTarget, nearbyTargets, dangerZones, lastAction,
                 skills, config, playerPosition, screenCenter, combatStats,
                 lastPositionRef, stuckTimerRef, previousTargetsRef, clock, lastFrame,
                 updates, metricsRef, lastMapping, lastRequest, lastClassified>>
  /\ UNCHANGED service
  /\ UNCHANGED history

(* the callbacks cancelAnimationFrame(inferenceLoopRef.current) leaves requested *)
NotReferenced(q) == SelectSeq(q, LAMBDA c : ~c.referenced)

stopScreenCapture ==
  /\ isCapturing
  /\ pending' = NotReferenced(pending)
  /\ isCapturing' = FALSE
  /\ visionState' = DEFAULT_STATE
  /\ UNCHANGED <<combatState, currentTarget, nearbyTargets, dangerZones, lastAction,
                 skills, config, playerPosition, screenCenter, combatStats,
                 lastPositionRef, stuckTimerRef, previousTargetsRef, clock, lastFrame,
                 updates, metricsRef, lastMapping, lastRequest, lastClassified>>
  /\ UNCHANGED <<actionConfig, sent, inFlight, approachSince>>

runLoop(results, dt) ==
  /\ isCapturing
  /\ lastFrame.tick < MaxTicks
  /\ visionState' = [Classified(visionState, results) EXCEPT !.status = "ready"]
  /\ lastClassified' = Some(results)
  /\ IF Len(results) > 0
       THEN /\ clock' = clock + dt
            /\ lastFrame' = [detections |-> results, playerHp |-> visionState.playerHp,
                             tick |-> lastFrame.tick + 1]
            /\ processFrame(results, visionState.playerHp, clock + dt)
            /\ metricsRef' = Some(updateVideoMetrics(FrameVideo, FrameContainer))
            /\ sent' = sent \o Dispatched(lastAction', config.combatEnabled,
                                           actionConfig.enabled)
       ELSE UNCHANGED <<combatState, currentTarget, nearbyTargets, dangerZones,
                        lastAction, skills, playerPosition, combatStats,
                        lastPositionRef, stuckTimerRef, previousTargetsRef, clock,
                        lastFrame, metricsRef, sent, approachSince>>
  /\ UNCHANGED <<config, screenCenter, updates, isCapturing, lastMapping, lastRequest,
                 actionConfig, pending, inFlight>>

NextSession ==
  \/ startScreenCapture
  \/ \E results \in Frames, dt \in Elapsed : runLoop(results, dt)
  \/ stopScreenCapture

SpecSession == Init /\ [][NextSession]_vars

----------------------------------------------------------------------------
(* The inference loop of DetectionPreview step by step.  A runLoop closure   *)
(* belongs to the render whose effect created it and holds that render's     *)
(* combatSystem and actionService; the component re-renders at any time (its *)
(* own setState calls, the page's interval), and every render re-runs the    *)
(* effect because combatSystem is a new object each time.                    *)

MaxPending == 2    \* animation-frame callbacks requested at one time
MaxInFlight == 2   \* passes awaiting runInference at one time
minInterval == 200

(* a requested runLoop: the flags its closure holds, whether its closure has *)
(* run an inference before (lastInferenceTimeLocal > 0), and whether         *)
(* inferenceLoopRef.current is its request id                                *)
Callback(combatEnabled, enabled, fresh, referenced) ==
  [ combatEnabled |-> combatEnabled, enabled |-> enabled, fresh |-> fresh,
    referenced |-> referenced ]

Unreferenced(q) == [i \in 1..Len(q) |-> [q[i] EXCEPT !.referenced = FALSE]]

Without(q, i) == SubSeq(q, 1, i - 1) \o SubSeq(q, i + 1, Len(q))

LoopFrames == {f \in Frames : Len(f) <= 1}

(* a render commits: the cleanup of the previous effect, then the effect *)
effect ==
  /\ pending' =
       IF isCapturing
         THEN Append(NotReferenced(pending),
                     Callback(config.combatEnabled, actionConfig.enabled, TRUE, TRUE))
       ELSE NotReferenced(pending)
  /\ Len(pending') <= MaxPending
  /\ UNCHANGED <<combatState, currentTarget, nearbyTargets, dangerZones, lastAction,
                 skills, config, playerPosition, screenCenter, combatStats,
                 lastPositionRef, stuckTimerRef, previousTargetsRef, clock, lastFrame,
                 updates, metricsRef, visionState, isCapturing, lastMapping,
                 lastRequest, lastClassified, actionConfig, sent, inFlight, approachSince>>

(* a requested runLoop runs up to its await: less than minInterval after its *)
(* closure's last inference it only requests itself again                    *)
animationFrame(i) ==
  /\ i \in 1..Len(pending)
  /\ \/ /\ Len(inFlight) < MaxInFlight
        /\ inFlight' = Append(inFlight, [pending[i] EXCEPT !.fresh = FALSE,
                                                           !.referenced = FALSE])
        /\ pending' = Without(pending, i)
        /\ visionState' = [visionState EXCEPT !.status = "inferencing"]
     \/ /\ ~pending[i].fresh
        /\ pending' = Append(Unreferenced(Without(pending, i)),
                             [pending[i] EXCEPT !.referenced = TRUE])
        /\ UNCHANGED <<inFlight, visionState>>
  /\ UNCHANGED <<combatState, currentTarget, nearbyTargets, dangerZones, lastAction,
                 skills, config, playerPosition, screenCenter, combatStats,
                 lastPositionRef, stuckTimerRef, previousTargetsRef, clock, lastFrame,
                 updates, metricsRef, isCapturing, lastMapping, lastRequest,
                 lastClassified, actionConfig, sent, approachSince>>

(* runInference resolves: the rest of the pass, with the closure's flags *)
inferenceDone(i, results, dt) ==
  /\ i \in 1..Len(inFlight)
  /\ lastFrame.tick < MaxTicks
  /\ Len(pending) < MaxPending
  /\ inFlight' = Without(inFlight, i)
  /\ pending' = Append(Unreferenced(pending), [inFlight[i] EXCEPT !.referenced = TRUE])
  /\ visionState' = [Classified(visionState, results) EXCEPT !.status = "ready"]
  /\ lastClassified' = Some(results)
  /\ IF Len(results) > 0
       THEN /\ clock' = clock + dt
            /\ lastFrame' = [detections |-> results, playerHp |-> visionState.playerHp,
                             tick |-> lastFrame.tick + 1]
            /\ processFrame(results, visionState.playerHp, clock + dt)
            /\ metricsRef' = Some(updateVideoMetrics(FrameVideo, FrameContainer))
            /\ sent' = sent \o Dispatched(lastAction', inFlight[i].combatEnabled,
                                           inFlight[i].enabled)
       ELSE UNCHANGED <<combatState, currentTarget, nearbyTargets, dangerZones,
                        lastAction, skills, playerPosition, combatStats,
                        lastPositionRef, stuckTimerRef, previousTargetsRef, clock,
                        lastFrame, metricsRef, sent, approachSince>>
  /\ UNCHANGED <<config, screenCenter, updates, isCapturing, lastMapping, lastRequest,
                 actionConfig>>

(* useActionService.updateConfig, from the panel's switch *)
updateServiceConfig(newConfig) ==
  /\ updates < MaxUpdates
  /\ updates' = updates + 1
  /\ actionConfig' = [actionConfig EXCEPT !.enabled = newConfig.enabled]
  /\ UNCHANGED <<combatState, currentTarget, nearbyTargets, dangerZones, lastAction,
                 skills, config, playerPosition, screenCenter, combatStats,
                 lastPositionRef, stuckTimerRef, previousTargetsRef, clock, lastFrame,
                 metricsRef, visionState, isCapturing, lastMapping, lastRequest,
                 lastClassified, sent, pending, inFlight, approachSince>>

(* the two switches as the user left them before the session *)
InitLoop ==
  /\ Init!1 /\ Init!2 /\ Init!3 /\ Init!4 /\ Init!5 /\ Init!6
  /\ \E b \in BOOLEAN : config = [DEFAULT_CONFIG EXCEPT !.combatEnabled = b]
  /\ Init!8 /\ Init!9 /\ Init!10 /\ Init!11 /\ Init!12 /\ Init!13 /\ Init!14
  /\ Init!15 /\ Init!16 /\ Init!17 /\ Init!18 /\ Init!19 /\ Init!20
  /\ Init!21 /\ Init!22
  /\ actionConfig \in [enabled : BOOLEAN]
  /\ Init!24 /\ Init!25 /\ Init!26 /\ Init!27

NextLoop ==
  \/ startScreenCapture
  \/ stopScreenCapture
  \/ effect
  \/ \E i \in 1..MaxPending : animationFrame(i)
  \/ \E i \in 1..MaxInFlight, results \in LoopFrames : inferenceDone(i, results, minInterval)
  \/ \E b \in BOOLEAN : updateConfig([combatEnabled |-> b])
  \/ \E b \in BOOLEAN : updateServiceConfig([enabled |-> b])

SpecLoop == InitLoop /\ [][NextLoop]_vars

----------------------------------------------------------------------------
(* processFrame in a crowded scene: safetyDistance 100 and density threshold *)
(* 1 as set on the panel, enemies close enough to form several zones         *)

DensePool ==
  << Det("mob", 50, 200), Det("mob", 50, 150), Det("mob", 50, 50),
     Det("mob", 130, 110), Det("Elite_Mob", 50, 350), Det("loot", 50, 90) >>

DenseFrames ==
  { WithIds(Pick(DensePool, chosen)) :
      chosen \in {c \in SUBSET (1..Len(DensePool)) : Cardinality(c) <= MaxDet} }

DenseConfigs ==
  { Merge(DEFAULT_CONFIG, [safetyDistance |-> 100, mobDensityThreshold |-> 1,
                           avoidDangerZones |-> a]) : a \in BOOLEAN }

InitDense ==
  /\ Init!1 /\ Init!2 /\ Init!3 /\ Init!4 /\ Init!5 /\ Init!6
  /\ config \in DenseConfigs
  /\ Init!8 /\ Init!9 /\ Init!10 /\ Init!11 /\ Init!12 /\ Init!13 /\ Init!14
  /\ Init!15 /\ Init!16 /\ Init!17 /\ Init!18 /\ Init!19 /\ Init!20
  /\ Init!21 /\ Init!22 /\ Init!23 /\ Init!24 /\ Init!25 /\ Init!26
  /\ Init!27

NextDense ==
  \E detections \in DenseFrames, playerHp \in PlayerHps, dt \in Elapsed :
    Tick(detections, playerHp, dt)

SpecDense == InitDense /\ [][NextDense]_vars

----------------------------------------------------------------------------
(* A run long enough to approach, fight, approach again and be found stuck *)

StuckTicks == 4

StuckFrames == {f \in Frames : Len(f) <= 2}

StuckTick(detections, dt) ==
  /\ lastFrame.tick < StuckTicks
  /\ TickBody(detections, 100, dt)

NextStuck == \E detections \in StuckFrames, dt \in Elapsed : StuckTick(detections, dt)

SpecStuck == Init /\ [][NextStuck]_vars

----------------------------------------------------------------------------
(* Properties *)

(* the enemy detections of the latest frame, and their centres *)
FrameEnemyIdx == {i \in 1..Len(lastFrame.detections) : IsEnemy(lastFrame.detections[i])}

FrameCenter(i) ==
  LET d == lastFrame.detections[i] IN
  IF d.centerX # None THEN <<d.centerX[1], d.centerY[1]>>
  ELSE <<d.x + d.width \div 2, d.y + d.height \div 2>>

(* enemies i and j of the latest frame lie within safetyDistance of each other *)
Close(i, j) ==
  LET p == FrameCenter(i)
      q == FrameCenter(j)
  IN (p[1] - q[1]) * (p[1] - q[1]) + (p[2] - q[2]) * (p[2] - q[2])
       <= config.safetyDistance * config.safetyDistance

Around(i) == {j \in FrameEnemyIdx : Close(i, j)}

RECURSIVE SumCoord(_, _)
SumCoord(S, c) ==
  IF S = {} THEN 0
  ELSE LET i == CHOOSE j \in S : TRUE IN FrameCenter(i)[c] + SumCoord(S \ {i}, c)

(* C8: every emitted zone has more members than the density threshold, has *)
(* radius safetyDistance and is centred on the centroid of the enemies      *)
(* within safetyDistance of some enemy (its seed).                          *)
C8_ZoneInvariant ==
  \A k \in 1..Len(dangerZones) :
    LET z == dangerZones[k] IN
    /\ z.mobCount > config.mobDensityThreshold
    /\ z.radius = config.safetyDistance
    /\ \E i \in FrameEnemyIdx :
         /\ z.mobCount = Cardinality(Around(i))
         /\ z.sumX = SumCoord(Around(i), 1)
         /\ z.sumY = SumCoord(Around(i), 2)

C8_Witness ==
  /\ Len(dangerZones) >= 2
  /\ \E k \in 1..Len(dangerZones) : dangerZones[k].mobCount = config.mobDensityThreshold + 1

(* C9: when all n enemies of the frame lie pairwise within safetyDistance   *)
(* and n exceeds the density threshold, exactly one zone is emitted, with   *)
(* member count n, and every prioritized target is flagged isInDangerZone.  *)
AllClose == \A i, j \in FrameEnemyIdx : Close(i, j)

NeighborsOf(t) ==
  {j \in FrameEnemyIdx :
     /\ lastFrame.detections[j].id # t.detection.id
     /\ \E i \in FrameEnemyIdx :
          lastFrame.detections[i].id = t.detection.id /\ Close(i, j)}

C10_IsolationInvariant ==
  \A k \in 1..Len(nearbyTargets) :
    LET t == nearbyTargets[k] IN
    /\ t.neighborCount = Cardinality(NeighborsOf(t))
    /\ t.isIsolated <=> Cardinality(NeighborsOf(t)) <= 1

(* a target with two neighbours, one of them filtered out by maxTargetDistance *)
C10_Witness ==
  \E k \in 1..Len(nearbyTargets) :
    /\ nearbyTargets[k].neighborCount = 2
    /\ ~nearbyTargets[k].isIsolated
    /\ Len(nearbyTargets) = 2

----------------------------------------------------------------------------
(* Properties of one call of processFrame, read off the step that makes it *)

(* the step is one call of processFrame; its inputs are in lastFrame' and   *)
(* its Date.now() is clock'                                                 *)
IsTick == lastFrame'.tick = lastFrame.tick + 1

NoEnemyInFrame ==
  \A i \in 1..Len(lastFrame'.detections) : ~IsEnemy(lastFrame'.detections[i])

JumpFired == lastAction' # None /\ lastAction'[1].type = "jump"

(* the position the call reads: the tracked one, else the screen centre *)
PlayerAt == IF playerPosition # None THEN playerPosition[1] ELSE screenCenter

(* the player is less than 1.5 radii from the centre of stored zone k *)
NearStored(k) ==
  LET z == dangerZones[k]
      dx == PlayerAt.x * z.mobCount - z.sumX
      dy == PlayerAt.y * z.mobCount - z.sumY
  IN 4 * (dx * dx + dy * dy) < 9 * z.radius * z.radius * z.mobCount * z.mobCount

AvoidApplies ==
  config.avoidDangerZones /\ \E k \in 1..Len(dangerZones) : NearStored(k)

ReadyHealAt(i) ==
  /\ Includes(ToLowerCase(skills[i].name), "heal")
  /\ clock' - skills[i].lastUsed >= skills[i].cooldown

HealApplies ==
  /\ lastFrame'.playerHp <= config.healThreshold
  /\ \E i \in 1..Len(skills) : ReadyHealAt(i)

LootApplies ==
  /\ config.autoLoot
  /\ \E i \in 1..Len(lastFrame'.detections) : IsLoot(lastFrame'.detections[i])

Returned(type) == lastAction' # None /\ lastAction'[1].type = type

(* C1 as stated: a call with no enemy detection selects "searching" and     *)
(* returns "wait", whatever else holds.                                     *)
C1_AsStated ==
  [][(IsTick /\ NoEnemyInFrame) => (combatState' = "searching" /\ Returned("wait"))]_vars

(* C1: a call with no enemy detection in which none of the stuck, avoidance, *)
(* heal and loot rules fires selects "searching" and returns "wait".         *)
C1_SearchingWithoutEnemies ==
  [][(IsTick /\ NoEnemyInFrame /\ ~JumpFired /\ ~AvoidApplies /\ ~HealApplies /\ ~LootApplies)
       => (combatState' = "searching" /\ Returned("wait"))]_vars

(* low HP and loot on screen, and still searching *)
C1_Witness ==
  /\ lastFrame.tick > 0
  /\ \A i \in 1..Len(lastFrame.detections) : ~IsEnemy(lastFrame.detections[i])
  /\ \E i \in 1..Len(lastFrame.detections) : IsLoot(lastFrame.detections[i])
  /\ lastFrame.playerHp <= config.healThreshold
  /\ combatState = "searching"
  /\ lastAction # None /\ lastAction[1].type = "wait"

(* the safe targets of the call, as positions in its prioritized list *)
SafeIdx ==
  {k \in 1..Len(nearbyTargets') :
     ~config.avoidDangerZones \/ ~nearbyTargets'[k].isInDangerZone}

TopSafe == nearbyTargets'[CHOOSE k \in SafeIdx : \A j \in SafeIdx : k <= j]

CooledDown(i) == clock' - skills[i].lastUsed >= skills[i].cooldown

AreaOnly(skill) == skill.isAoe /\ skill.minTargets # None /\ skill.minTargets[1] # 0

(* the scheduler has nothing for a single-target request / an area request *)
NoneForSingle == \A i \in 1..Len(skills) : ~CooledDown(i) \/ AreaOnly(skills[i])

NoneForArea ==
  \A i \in 1..Len(skills) :
    ~CooledDown(i) \/ (AreaOnly(skills[i]) /\ Cardinality(SafeIdx) < skills[i].minTargets[1])

(* C2 as stated: every call returns an action *)
C2_AsStated == lastFrame.tick > 0 => lastAction # None

(* C2: a call returns no action exactly when it selects "combat" or "aoe"   *)
(* and the scheduler has no skill for the request; every other call returns *)
(* an action.                                                               *)
C2_ActionUnlessNoSkill ==
  [][IsTick =>
       (lastAction' = None <=>
          /\ ~JumpFired /\ ~AvoidApplies /\ ~HealApplies /\ SafeIdx # {}
          /\ \/ combatState' = "combat" /\ NoneForSingle
             \/ combatState' = "aoe" /\ NoneForArea)]_vars

C2_Witness ==
  /\ lastFrame.tick > 0
  /\ lastAction = None
  /\ combatState = "combat"
  /\ nearbyTargets # <<>>

FirstReadyHeal ==
  skills[CHOOSE i \in 1..Len(skills) :
           ReadyHealAt(i) /\ \A j \in 1..(i - 1) : ~ReadyHealAt(j)]

C4_HealFirstInRoster ==
  [][(IsTick /\ HealApplies /\ ~JumpFired /\ ~AvoidApplies)
       => /\ combatState' = "healing"
          /\ Returned("skill")
          /\ lastAction'[1].skill = <<FirstReadyHeal>>]_vars

(* healed with the first of two ready heal skills, a target in view *)
C4_Witness ==
  /\ combatState = "healing"
  /\ lastAction # None /\ lastAction[1].skill # None
  /\ lastAction[1].skill[1].name = "Greater Healing"
  /\ \E i \in 1..Len(skills) : skills[i].name = "Heal" /\ skills[i].lastUsed = 0
  /\ nearbyTargets # <<>>

(* the call reaches the combat rule: no earlier rule fired and a safe target exists *)
CombatReached ==
  IsTick /\ ~JumpFired /\ ~AvoidApplies /\ ~HealApplies /\ SafeIdx # {}

AoEApplies == Cardinality(SafeIdx) >= config.aoeThreshold /\ ~config.avoidDangerZones

TopCenter ==
  LET d == TopSafe.detection IN
  IF d.centerX # None THEN [x |-> d.centerX[1], y |-> d.centerY[1], den |-> 1]
  ELSE [x |-> d.x + d.width \div 2, y |-> d.y + d.height \div 2, den |-> 1]

(* within the attack range and no area opportunity: "combat", and a skill   *)
(* that is returned is aimed at the top target and is not area-only         *)
InRangePart ==
  ( /\ TopSafe.distance >= config.minAttackRange
    /\ TopSafe.distance <= config.maxAttackRange
    /\ ~AoEApplies )
    => /\ combatState' = "combat"
       /\ lastAction' # None =>
            /\ lastAction'[1].type = "skill"
            /\ lastAction'[1].target = <<TopSafe>>
            /\ ~AreaOnly(lastAction'[1].skill[1])

(* beyond the attack range: "approaching" and a move toward the target *)
BeyondRangePart ==
  TopSafe.distance > config.maxAttackRange
    => /\ combatState' = "approaching"
       /\ Returned("move")
       /\ lastAction'[1].direction = <<TopCenter>>

(* C5 as stated: the third case is d < minAttackRange with kiting enabled *)
C5_AsStated ==
  [][CombatReached =>
       /\ InRangePart
       /\ BeyondRangePart
       /\ (TopSafe.distance < config.minAttackRange /\ config.kiteEnabled)
            => combatState' = "kiting"]_vars

(* C5: when the combat rule is reached with top safe target at distance d:  *)
(* minAttackRange <= d <= maxAttackRange without an area opportunity gives  *)
(* "combat" with a single-target request; d > maxAttackRange gives          *)
(* "approaching" and a move toward the target; d < minAttackRange with      *)
(* d <= maxAttackRange and kiting enabled gives "kiting".                   *)
C5_RangeBranches ==
  [][CombatReached =>
       /\ InRangePart
       /\ BeyondRangePart
       /\ ( /\ TopSafe.distance < config.minAttackRange
            /\ TopSafe.distance <= config.maxAttackRange
            /\ config.kiteEnabled )
            => (combatState' = "kiting" /\ Returned("move"))]_vars

(* kiting away from a target closer than minAttackRange *)
C5_Witness ==
  /\ combatState = "kiting"
  /\ lastAction # None /\ lastAction[1].type = "move"
  /\ nearbyTargets # <<>>
  /\ nearbyTargets[1].distance < config.minAttackRange
  /\ nearbyTargets[1].distance <= config.maxAttackRange
  /\ config.kiteEnabled

(* C6: a call changes the current target only in the combat rule, only to   *)
(* the top safe target, and only when there was none or the top target's    *)
(* score exceeds 1.2 times the score S held by the current one; otherwise   *)
(* the current target is left as it is.                                     *)
Outscores == currentTarget = None \/ 10 * TopSafe.priority > 12 * currentTarget[1].priority

EnemyIdsOf(dets) == {dets[i].id : i \in {j \in 1..Len(dets) : IsEnemy(dets[j])}}

C7_KillCounter ==
  [][IF IsTick
       THEN combatStats'.killCount = combatStats.killCount +
              Cardinality(EnemyIdsOf(lastFrame.detections) \ EnemyIdsOf(lastFrame'.detections))
       ELSE combatStats'.killCount = combatStats.killCount \/ combatStats' = InitialStats]_vars

(* a jump call that counted a kill: the enemy approached in the call before *)
(* is gone from the frame of the jump call                                  *)
C7_Witness ==
  /\ lastAction # None /\ lastAction[1].type = "jump"
  /\ combatState = "approaching"
  /\ previousTargetsRef = {}
  /\ combatStats.killCount >= 1

(* C11: with non-negative weights every prioritized target's score lies    *)
(* between 0 and the sum of the five weights, and each of its five terms    *)
(* lies between 0 and 1.                                                    *)
WeightSum ==
  LET w == config.priorityWeights
  IN w.distance + w.hp + w.type + w.threat + w.isolation

IsTerm(v) == 0 <= v /\ v <= TermScale

C11_ScoreBounds ==
  \A k \in 1..Len(nearbyTargets) :
    LET t == nearbyTargets[k] IN
    /\ 0 <= t.priority /\ t.priority <= TermScale * WeightSum
    /\ IsTerm(distanceScore(t.distance, config.maxTargetDistance))
    /\ IsTerm(typeScore(t.detection.type, config.preferredTargetTypes))
    /\ IsTerm(hpScore)
    /\ IsTerm(threatScore(t.detection.type))
    /\ IsTerm(isolationScore(t.neighborCount, config.mobDensityThreshold))

(* both ends are met: one target scores the whole weight sum, another scores 0 *)
C11_Witness ==
  /\ WeightSum > 0
  /\ \E k \in 1..Len(nearbyTargets) : nearbyTargets[k].priority = TermScale * WeightSum
  /\ \E k \in 1..Len(nearbyTargets) : nearbyTargets[k].priority = 0

(* the normalized point of the latest mapping, multiplied by the dimensions *)
(* (displayWidth + 2 * offsetX, displayHeight + 2 * offsetY)                *)
ScaledBack ==
  LET m == lastMapping[1] IN
  [ x |-> Times(m.normalized.x, Plus(m.metrics.displayWidth, Times(Whole(2), m.metrics.offsetX))),
    y |-> Times(m.normalized.y, Plus(m.metrics.displayHeight, Times(Whole(2), m.metrics.offsetY))) ]

(* the centre of the mapped detection, in percent *)
MappedCenter ==
  LET d == lastMapping[1].detection IN
  [ x |-> Rat(2 * d.x + d.width, 2), y |-> Rat(2 * d.y + d.height, 2) ]

SamePoint(p, q) == SameNumber(p.x, q.x) /\ SameNumber(p.y, q.y)

ComposedAlike == lastMapping[1].direct = lastMapping[1].normalized

NonZeroDimensions ==
  LET m == lastMapping[1].metrics IN
  /\ Plus(m.displayWidth, Times(Whole(2), m.offsetX)) # Whole(0)
  /\ Plus(m.displayHeight, Times(Whole(2), m.offsetY)) # Whole(0)

(* C12 as stated: the round trip returns the point it started from, the     *)
(* detection's centre                                                       *)
C12_AsStated ==
  lastMapping # None => (SamePoint(ScaledBack, MappedCenter) /\ ComposedAlike)

(* C12: for metrics with non-zero dimensions, the normalized point          *)
(* multiplied by the dimensions is the viewport point detectionToViewport   *)
(* gave; and detectionToNormalized equals viewportToNormalized after        *)
(* detectionToViewport for all metrics.                                     *)
C12_RoundTripToViewport ==
  lastMapping # None =>
    /\ ComposedAlike
    /\ NonZeroDimensions => SamePoint(ScaledBack, lastMapping[1].viewport)

(* a box centred off the middle, mapped into a pillarboxed display *)
C12_Witness ==
  /\ lastMapping # None
  /\ NonZeroDimensions
  /\ lastMapping[1].metrics.offsetX # Whole(0)
  /\ lastMapping[1].viewport.x.den # 1
  /\ lastMapping[1].normalized.x # Rat(1, 2)
  /\ SamePoint(ScaledBack, lastMapping[1].viewport)

(* C13 as stated: for an area request the scheduler returns only           *)
(* area-capable skills whose minimum-target requirement, if any, is met.    *)
C13_AsStated ==
  (lastRequest # None /\ lastRequest[1].isAoeNeeded /\ lastRequest[1].result # None)
    => LET skill == lastRequest[1].result[1] IN
       /\ skill.isAoe
       /\ skill.minTargets = None \/ lastRequest[1].nearbyCount >= skill.minTargets[1]

(* the roster entries that pass the filter of the latest request *)
Passes(i) ==
  LET skill == skills[i]
      req == lastRequest[1]
      needsCount == skill.minTargets # None /\ skill.minTargets[1] # 0
  IN /\ clock - skill.lastUsed >= skill.cooldown
     /\ IF skill.isAoe
          THEN IF req.isAoeNeeded
                 THEN ~needsCount \/ req.nearbyCount >= skill.minTargets[1]
                 ELSE ~needsCount
          ELSE TRUE

Passing == {i \in 1..Len(skills) : Passes(i)}

(* the earliest entry among those of the highest priority *)
Best ==
  CHOOSE i \in Passing :
    \A j \in Passing :
      skills[j].priority < skills[i].priority
        \/ (skills[j].priority = skills[i].priority /\ i <= j)

(* C14: the scheduler returns none exactly when no skill passes the filter, *)
(* and otherwise the passing skill of the highest priority, the earliest in *)
(* roster order among equal priorities.                                     *)
C14_HighestPriorityFirst ==
  lastRequest # None =>
    IF Passing = {} THEN lastRequest[1].result = None
    ELSE lastRequest[1].result = <<skills[Best]>>

(* two passing skills of the same top priority: the earlier one is returned *)
C14_Witness ==
  /\ lastRequest # None /\ lastRequest[1].result # None
  /\ \E i, j \in Passing :
       /\ i < j /\ skills[i].priority = skills[j].priority
       /\ skills[i].name # skills[j].name
       /\ lastRequest[1].result[1] = skills[i]
  /\ \E i \in 1..Len(skills) : ~Passes(i)

(* the call returns an action that carries a skill *)
Carried == lastAction' # None /\ lastAction'[1].skill # None

RECURSIVE SumMobCount(_)
SumMobCount(zones) ==
  IF zones = <<>> THEN 0 ELSE Head(zones).mobCount + SumMobCount(Tail(zones))

(* C16 as stated: the member counts of the zones of one call add up to at   *)
(* most the number of enemies (no enemy is a member of two zones).          *)
C16_AsStated == SumMobCount(dangerZones) <= Cardinality(FrameEnemyIdx)

(* an enemy of the frame with no other enemy within safetyDistance *)
Lone(i) == Around(i) = {i}

SeededBy(z, i) ==
  z.mobCount = 1 /\ z.sumX = FrameCenter(i)[1] /\ z.sumY = FrameCenter(i)[2]

NoZoneOfLoneEnemy ==
  /\ Cardinality(FrameEnemyIdx) = 1 => dangerZones = <<>>
  /\ \A i \in FrameEnemyIdx :
       Lone(i) => \A k \in 1..Len(dangerZones) : ~SeededBy(dangerZones[k], i)

Seen == lastClassified[1]

Matches(i, keywords) ==
  \E kw \in keywords : Includes(ToLowerCase(Seen[i].type), kw)

InPool(i, pool) == \E k \in 1..Len(pool) : pool[k] = Seen[i]

IsBar(i) == Matches(i, HP_TYPES) \/ Matches(i, MANA_TYPES)

(* C18: after updateFromDetections a detection that matches an HP or mana   *)
(* keyword is in none of the pools; any other detection is in enemies if it *)
(* matches an enemy keyword, else in resources if it matches a resource     *)
(* keyword, else in loot if it matches a loot keyword, and in no other pool; *)
(* the pools hold nothing else, and an empty list gives empty pools.        *)
C18_OnePoolAtMost ==
  lastClassified # None =>
    /\ \A i \in 1..Len(Seen) :
         LET enemy == ~IsBar(i) /\ Matches(i, ENEMY_TYPES)
             resource == ~IsBar(i) /\ ~enemy /\ Matches(i, RESOURCE_TYPES)
             item == ~IsBar(i) /\ ~enemy /\ ~resource /\ Matches(i, LOOT_TYPES)
         IN /\ InPool(i, visionState.enemies) <=> enemy
            /\ InPool(i, visionState.resources) <=> resource
            /\ InPool(i, visionState.loot) <=> item
    /\ Len(visionState.enemies) + Len(visionState.resources) + Len(visionState.loot)
         <= Len(Seen)
    /\ Seen = <<>> =>
         (visionState.enemies = <<>> /\ visionState.resources = <<>>
            /\ visionState.loot = <<>>)

(* a frame with a bar and a detection matching both enemy and loot keywords *)
C18_Witness ==
  /\ lastClassified # None
  /\ \E i \in 1..Len(Seen) : Matches(i, HP_TYPES)
  /\ \E i \in 1..Len(Seen) :
       /\ Matches(i, ENEMY_TYPES) /\ Matches(i, LOOT_TYPES)
       /\ InPool(i, visionState.enemies)
  /\ visionState.loot = <<>>

(* the value the claim gives for a bar detection *)
Clamp(v) == IF v < 0 THEN 0 ELSE IF v > 100 THEN 100 ELSE v

Reading(d) ==
  IF d.rawWidth # None THEN Clamp((d.rawWidth[1] * 100) \div 250) ELSE Clamp(d.width)

LastMatch(detections, keywords) ==
  LET hits == {i \in 1..Len(detections) :
                 \E kw \in keywords : Includes(ToLowerCase(detections[i].type), kw)}
  IN IF hits = {} THEN None
     ELSE <<detections[CHOOSE i \in hits : \A j \in hits : j <= i]>>

(* C19 as stated: after a call with a matching detection HP (mana) is the   *)
(* clamped reading of it, for every width including 0; after a call with    *)
(* none it is what it was.                                                  *)
C19_AsStated ==
  [][lastClassified' # lastClassified =>
       LET hp == LastMatch(lastClassified'[1], HP_TYPES)
           mana == LastMatch(lastClassified'[1], MANA_TYPES \ HP_TYPES)
       IN /\ visionState'.playerHp =
               IF hp = None THEN visionState.playerHp ELSE Reading(hp[1])
          /\ hp = None =>
               visionState'.playerMana =
                 IF mana = None THEN visionState.playerMana ELSE Reading(mana[1])]_vars

(* C20 as stated: stopping the capture session puts the skills' last-used   *)
(* times, the combat counters and the current target back to their initial  *)
(* values.                                                                  *)
C20_AsStated ==
  [][(isCapturing /\ ~isCapturing') =>
       /\ \A i \in 1..Len(skills') : skills'[i].lastUsed = 0
       /\ combatStats' = InitialStats
       /\ currentTarget' = None]_vars

(* C21 as stated: at most one inference request is in flight, an inference  *)
(* starts and a tick happens only while the capture is on.                  *)
C21_AsStated ==
  [][/\ Len(inFlight') <= 1
     /\ Len(inFlight') > Len(inFlight) => isCapturing
     /\ lastFrame'.tick > lastFrame.tick => isCapturing]_vars

(* the player is less than 1.5 radii from the centre of zone k of this tick *)
NearComputed(k) ==
  LET z == dangerZones'[k]
      dx == PlayerAt.x * z.mobCount - z.sumX
      dy == PlayerAt.y * z.mobCount - z.sumY
  IN 4 * (dx * dx + dy * dy) < 9 * z.radius * z.radius * z.mobCount * z.mobCount

Avoided == lastAction' # None /\ lastAction'[1].reason = "Weiche Danger Zone aus"

(* C22 as stated: in a tick with avoidance enabled and no jump, the avoidance *)
(* rule fires exactly when the player is near a zone computed from that      *)
(* tick's detections.                                                        *)
C22_AsStated ==
  [][(IsTick /\ ~JumpFired /\ config.avoidDangerZones) =>
       (Avoided <=> \E k \in 1..Len(dangerZones') : NearComputed(k))]_vars

(* squared distance from the player to the centre of stored zone k, times   *)
(* the square of the zone's member count                                    *)
ZoneDistance(k) ==
  LET z == dangerZones[k]
      dx == PlayerAt.x * z.mobCount - z.sumX
      dy == PlayerAt.y * z.mobCount - z.sumY
  IN dx * dx + dy * dy

Nearest(k) ==
  \A j \in 1..Len(dangerZones) :
    ZoneDistance(k) * dangerZones[j].mobCount * dangerZones[j].mobCount
      <= ZoneDistance(j) * dangerZones[k].mobCount * dangerZones[k].mobCount

(* the direction of the returned move is 2 * player - centre of stored zone k *)
ReflectsZone(k) ==
  LET z == dangerZones[k]
      dir == lastAction'[1].direction[1]
  IN /\ dir.x * z.mobCount = (2 * PlayerAt.x * z.mobCount - z.sumX) * dir.den
     /\ dir.y * z.mobCount = (2 * PlayerAt.y * z.mobCount - z.sumY) * dir.den

(* C23 as stated: when the avoidance rule fires, the move's direction is the *)
(* reflection through the player of the centre of the zone nearest to the   *)
(* player, and dangersAvoided grows by 1.                                   *)
C23_AsStated ==
  [][(IsTick /\ Avoided) =>
       /\ \E k \in 1..Len(dangerZones) : Nearest(k) /\ ReflectsZone(k)
       /\ combatStats'.dangersAvoided = combatStats.dangersAvoided + 1]_vars

(* the tracked position is less than 5 units from the one stored last *)
BarelyMoved ==
  /\ playerPosition # None /\ lastPositionRef # None
  /\ (playerPosition[1].x - lastPositionRef[1].x) * (playerPosition[1].x - lastPositionRef[1].x)
       + (playerPosition[1].y - lastPositionRef[1].y) * (playerPosition[1].y - lastPositionRef[1].y)
       < 5 * 5

(* C24 as stated: a jump is returned only by a tick whose previous state was *)
(* "approaching", with the tracked position barely moved, and only when the  *)
(* present stay in "approaching" (or the time since the last jump) is longer *)
(* than stuckTimeout.                                                        *)
C24_AsStated ==
  [][(IsTick /\ JumpFired) =>
       /\ combatState = "approaching"
       /\ BarelyMoved
       /\ approachSince # None
       /\ clock' - approachSince[1] > config.stuckTimeout]_vars

(* C25 as stated: a tick in which no jump, move or skill was chosen, with    *)
(* loot detected and autoLoot on, selects "looting" and returns a loot       *)
(* action, also when safe targets exist and no skill is available.           *)
C25_AsStated ==
  [][(IsTick /\ ~JumpFired /\ ~Returned("move") /\ ~Returned("skill") /\ LootApplies)
       => (combatState' = "looting" /\ Returned("loot"))]_vars

(* C25: a tick in which the stuck, avoidance and heal rules do not fire and  *)
(* no safe target exists, with loot detected and autoLoot on, selects        *)
(* "looting" and returns a loot action.                                      *)
C25_LootWithoutSafeTargets ==
  [][(IsTick /\ ~JumpFired /\ ~AvoidApplies /\ ~HealApplies /\ SafeIdx = {} /\ LootApplies)
       => (combatState' = "looting" /\ Returned("loot"))]_vars

(* looting with enemies on screen, all of them inside a danger zone *)
C25_Witness ==
  /\ lastFrame.tick > 0
  /\ config.avoidDangerZones
  /\ nearbyTargets # <<>>
  /\ \A k \in 1..Len(nearbyTargets) : nearbyTargets[k].isInDangerZone
  /\ combatState = "looting"
  /\ lastAction # None /\ lastAction[1].type = "loot"

(* the state a call selects is the one the machine is in after the call *)
SelectedIsStored ==
  [][IsTick => combatState' =
                 SelectedState(lastFrame'.detections, lastFrame'.playerHp, clock')]_vars

(* no call has selected "idle": the machine is idle only before its first call *)
IdleOnlyAtStart == lastFrame.tick > 0 => combatState # "idle"

(* C26 as stated, for the target state "idle": wherever a call can still be  *)
(* made, some inputs make the call select "idle".                            *)
C26_AsStated ==
  lastFrame.tick < MaxTicks =>
    \E detections \in Frames, playerHp \in PlayerHps, dt \in Elapsed :
      SelectedState(detections, playerHp, clock + dt) = "idle"

(* the targets of this tick that are not flagged *)
Unflagged == {nearbyTargets'[k] : k \in {j \in 1..Len(nearbyTargets') :
                                          ~nearbyTargets'[j].isInDangerZone}}

Kited == lastAction' # None /\ lastAction'[1].reason = "Kiting - Ziel zu nah"

(* C27: in a tick with avoidDangerZones enabled the state "aoe" is not      *)
(* selected; the target of the returned action (approach move, combat       *)
(* skill) is a target of this tick that is not flagged isInDangerZone; a    *)
(* kite move leads away from the top unflagged target; and a changed        *)
(* current target is an unflagged target of this tick.                      *)
C27_NoFlaggedTargetEngaged ==
  [][(IsTick /\ config.avoidDangerZones) =>
       /\ combatState' # "aoe"
       /\ (lastAction' # None /\ lastAction'[1].target # None)
            => lastAction'[1].target[1] \in Unflagged
       /\ Kited => /\ SafeIdx # {}
                   /\ lastAction'[1].direction[1].x = 2 * PlayerAt.x - TopCenter.x
                   /\ lastAction'[1].direction[1].y = 2 * PlayerAt.y - TopCenter.y
       /\ (currentTarget' # currentTarget /\ currentTarget' # None)
            => currentTarget'[1] \in Unflagged]_vars

(* an enemy inside a danger zone on screen, and the action aims at another *)
C27_Witness ==
  /\ lastFrame.tick > 0
  /\ config.avoidDangerZones
  /\ \E k \in 1..Len(nearbyTargets) : nearbyTargets[k].isInDangerZone
  /\ nearbyTargets[1].isInDangerZone
  /\ lastAction # None /\ lastAction[1].target # None
  /\ ~lastAction[1].target[1].isInDangerZone
  /\ currentTarget = lastAction[1].target

(* the same object on screen: type and centre agree (ids are per frame) *)
SameObject(d, e) ==
  /\ d.type = e.type
  /\ CenterX(d) = CenterX(e)
  /\ CenterY(d) = CenterY(e)

(* C28 as stated: after a tick a remembered current target is one of the    *)
(* safe targets of that tick.                                               *)
C28_AsStated ==
  (lastFrame.tick > 0 /\ currentTarget # None) =>
    \E k \in 1..Len(nearbyTargets) :
      /\ ~config.avoidDangerZones \/ ~nearbyTargets[k].isInDangerZone
      /\ SameObject(nearbyTargets[k].detection, currentTarget[1].detection)

(* prioritizeTargets over up to four enemies placed so that the circle of a   *)
(* zone and the cluster it was built from differ                              *)
MaxFlagged == 4

FlagPool ==
  { Det("mob", 100, 100), Det("mob", 0, 100), Det("mob", 200, 100),
    Det("mob", 180, 100), Det("mob", 150, 190) }

FlagFrames == {WithIds(q) : q \in SeqsUpTo(FlagPool, MaxFlagged)}

FlagConfigs ==
  { Merge(DEFAULT_CONFIG, [safetyDistance |-> 100, mobDensityThreshold |-> k]) :
      k \in {1, 2} }

InitFlag ==
  /\ Init!1 /\ Init!2 /\ Init!3 /\ Init!4 /\ Init!5 /\ Init!6
  /\ config \in FlagConfigs
  /\ Init!8 /\ Init!9 /\ Init!10 /\ Init!11 /\ Init!12 /\ Init!13 /\ Init!14
  /\ Init!15 /\ Init!16 /\ Init!17 /\ Init!18 /\ Init!19 /\ Init!20
  /\ Init!21 /\ Init!22 /\ Init!23 /\ Init!24 /\ Init!25 /\ Init!26
  /\ Init!27

NextFlag == \E detections \in FlagFrames : Prioritize(detections)

SpecFlag == InitFlag /\ [][NextFlag]_vars

(* the enemies of the frame that the cluster of some emitted zone counted:  *)
(* a zone is the one seeded by i when its count and sums are those of the   *)
(* enemies within safetyDistance of i                                       *)
Emitted(i) ==
  \E k \in 1..Len(dangerZones) :
    /\ dangerZones[k].mobCount = Cardinality(Around(i))
    /\ dangerZones[k].sumX = SumCoord(Around(i), 1)
    /\ dangerZones[k].sumY = SumCoord(Around(i), 2)

ClusterMember(j) == \E i \in FrameEnemyIdx : Emitted(i) /\ j \in Around(i)

(* C29 as stated: a prioritized target is flagged isInDangerZone exactly     *)
(* when it is a member of the cluster of a zone emitted by the same call.    *)
C29_AsStated ==
  lastFrame.tick = 1 =>
    \A k \in 1..Len(nearbyTargets) :
      \A j \in FrameEnemyIdx :
        lastFrame.detections[j].id = nearbyTargets[k].detection.id
          => (nearbyTargets[k].isInDangerZone <=> ClusterMember(j))

(* the centre of enemy j lies in the circle of radius safetyDistance around  *)
(* the centroid of an emitted zone                                           *)
InCircle(j) ==
  \E k \in 1..Len(dangerZones) :
    LET n == dangerZones[k].mobCount
        p == FrameCenter(j)
        dx == p[1] * n - dangerZones[k].sumX
        dy == p[2] * n - dangerZones[k].sumY
    IN dx * dx + dy * dy <= config.safetyDistance * config.safetyDistance * n * n

(* C29, amended: a prioritized target is flagged isInDangerZone exactly when *)
(* its centre lies within safetyDistance of the centroid of some zone        *)
(* emitted by the same call, whether or not the zone's cluster counted it.   *)
C29_FlagIsCircleTest ==
  lastFrame.tick = 1 =>
    \A k \in 1..Len(nearbyTargets) :
      \A j \in FrameEnemyIdx :
        lastFrame.detections[j].id = nearbyTargets[k].detection.id
          => (nearbyTargets[k].isInDangerZone <=> InCircle(j))

(* a flagged target that no emitted cluster counted, next to a cluster      *)
(* member on the border of its zone's circle                                *)
C29_Witness ==
  /\ lastFrame.tick = 1
  /\ \E k \in 1..Len(nearbyTargets) : \E j \in FrameEnemyIdx :
       /\ lastFrame.detections[j].id = nearbyTargets[k].detection.id
       /\ nearbyTargets[k].isInDangerZone
       /\ ~ClusterMember(j)

(* the other direction: a member of an emitted cluster of four, farther than *)
(* safetyDistance from the cluster's centroid, is not flagged                 *)
C29_MemberUnflagged ==
  /\ lastFrame.tick = 1
  /\ \E k \in 1..Len(nearbyTargets) : \E j \in FrameEnemyIdx :
       /\ lastFrame.detections[j].id = nearbyTargets[k].detection.id
       /\ ~nearbyTargets[k].isInDangerZone
       /\ ClusterMember(j)

(* C30 as stated: a command reaches the action service's sink only in a step *)
(* during which combatEnabled and the service's enabled flag are both true;  *)
(* with both off, nothing is ever sent.                                      *)
C30_AsStated ==
  [][sent' # sent => (config.combatEnabled /\ actionConfig.enabled)]_vars

(* the part about the defaults: as long as neither switch has ever been on, *)
(* nothing has been sent                                                    *)
C30_NothingSentAtDefaults ==
  (updates = 0 /\ ~config.combatEnabled /\ ~actionConfig.enabled) => sent = <<>>

====
